---- MODULE Spec2Model ----
(***************************************************************************)
(* Model of the request admission limiter of the Finance Garden API:       *)
(*   api/middleware/rate_limit.py  RateLimitMiddleware                     *)
(*   api/core/config.py            Settings.RATE_LIMIT_REQUESTS / _PERIOD  *)
(*   api/middleware/logging.py     LoggingMiddleware                       *)
(*   api/main.py                   the order of the add_middleware calls   *)
(* and of the handlers of two routers behind it:                           *)
(*   api/routers/danger_zone.py    request_data_deletion, cancel_deletion  *)
(*   api/routers/transfers.py      create/update/cancel_transfer           *)
(* The Redis sorted sets the middleware uses are modelled by what the      *)
(* commands do: ZREMRANGEBYSCORE (inclusive score range), ZCARD, ZADD      *)
(* (one element per member, the score of an existing member is replaced),  *)
(* EXPIRE (time-to-live of an existing key), removal of a key whose sorted *)
(* set becomes empty, and removal of a key whose time-to-live has elapsed. *)
(***************************************************************************)
EXTENDS Integers, Sequences, FiniteSets, Bags, TLC

VARIABLES
    settings,   \* core.config.settings: RATE_LIMIT_REQUESTS, RATE_LIMIT_PERIOD
    now,        \* the clock, int(time.time())
    zsets,      \* Redis: key -> sorted set, a set of [member, score]
    expiry,     \* Redis: key -> second at which the key's time-to-live elapses, or NoTTL
    procs,      \* gate processes sharing the store: position inside check_rate_limit
    admits,     \* history: client id -> its admitted calls in order: the time of the call
                \* (current_time), the time of the decision, element recorded or not
    faults,     \* history: number of store operations that raised so far
    last,       \* history: what the gate invocation of the latest step did (NoCall: none)
    refused,    \* history of the latest rejection: <<c, t>>: the call of client c at
                \* t was rejected and no call of c was admitted since; <<c, t, a>>:
                \* the call of the latest step, made at a, is the first of c admitted
                \* after it; <<>> otherwise
    pending,    \* the requests handed to the application (await self.app) whose
                \* response start has not been sent yet: a bag of [proc, scope]
    served,     \* the request whose first message was sent in the latest step: the
                \* middlewares it entered, its log lines, the message as it leaves
                \* the outermost middleware; None when the step sent none
    resolved,   \* identity resolver: the latest application of get_client_id, or None
    tasks,      \* danger zone: the deletion tasks created, with the status last written
    jobs,       \* danger zone: the background jobs of BackgroundTasks, one per task
    transfers,  \* transfers: per transfer id, what the helpers were last handed
    reply       \* routers: what the latest handler call answered and did, or None

vars ==
    <<settings, now, zsets, expiry, procs, admits, faults, last, refused, pending,
      served, resolved, tasks, jobs, transfers, reply>>

\* the state of the limiter, and the state outside it
limiterVars ==
    <<settings, now, zsets, expiry, procs, admits, faults, last, refused, pending,
      served>>
routerVars == <<tasks, jobs, transfers, reply>>

----------------------------------------------------------------------------
(* Bounds of the model *)

MaxTime == 3        \* the clock runs over 0..MaxTime
MaxLimit == 2       \* RATE_LIMIT_REQUESTS is drawn from 1..MaxLimit
MaxWindow == 2      \* RATE_LIMIT_PERIOD is drawn from 2..MaxWindow
MaxAdmits == 3      \* admissions recorded in the history
MaxFaults == 1      \* store operations that raise
MaxInFlight == 2    \* requests handed to the application and not answered yet
NumProcs == 2       \* gate processes sharing one store (concurrent specification)
MaxConcAdmits == 4  \* admissions recorded in the history of the concurrent specification
MaxPollTime == 21   \* clock bound of the default-settings specification

(* Program constants *)

DEFAULT_RATE_LIMIT_REQUESTS == 100
DEFAULT_RATE_LIMIT_PERIOD == 60
DOC_LIMIT_AUTHENTICATED == 100
DOC_LIMIT_UNAUTHENTICATED == 20
DOC_LIMIT_WINDOW == 60
HTTP_429_TOO_MANY_REQUESTS == 429
HTTP_200_OK == 200
HTTP_404_NOT_FOUND == 404
HTTP_500_INTERNAL_SERVER_ERROR == 500
HASH_PREFIX_LEN == 16

\* an optional value is <<>> (Python None) or <<v>>
None == <<>>
Some(v) == <<v>>
NoTTL == -1

----------------------------------------------------------------------------
(* Prefix tests, splitting and trimming are computed on the characters of   *)
(* a string: Chars gives the characters of the strings the model uses, Text *)
(* the string of a sequence of characters.                                  *)

S_Bearer == <<"B", "e", "a", "r", "e", "r", " ">>
S_abc == <<"a", "b", "c">>
S_xyz == <<"x", "y", "z">>
S_Basic == <<"B", "a", "s", "i", "c", " ">>
S_peer == <<"1", "0", ".", "0", ".", "0", ".", "1">>
S_origin == <<"2", "0", "3", ".", "0", ".", "1", "1", "3", ".", "5">>
S_unknown == <<"u", "n", "k", "n", "o", "w", "n">>
S_bearer == <<"b", "e", "a", "r", "e", "r", " ">>
S_peer2 == <<"1", "0", ".", "0", ".", "0", ".", "2">>

Texts ==
    {"", "Bearer ", "Bearer abc", "Bearer xyz", "Basic abc", "10.0.0.1", "203.0.113.5",
     "203.0.113.5, 10.0.0.1", "unknown", "bearer abc", "10.0.0.2",
     " 203.0.113.5 ,10.0.0.1", ",", " 10.0.0.1", "\f203.0.113.5\t"}

Chars(text) ==
    CASE text = "" -> <<>>
      [] text = "Bearer " -> S_Bearer
      [] text = "Bearer abc" -> S_Bearer \o S_abc
      [] text = "Bearer xyz" -> S_Bearer \o S_xyz
      [] text = "Basic abc" -> S_Basic \o S_abc
      [] text = "10.0.0.1" -> S_peer
      [] text = "203.0.113.5" -> S_origin
      [] text = "203.0.113.5, 10.0.0.1" -> S_origin \o <<",", " ">> \o S_peer
      [] text = "unknown" -> S_unknown
      [] text = "bearer abc" -> S_bearer \o S_abc
      [] text = "10.0.0.2" -> S_peer2
      [] text = " 203.0.113.5 ,10.0.0.1" -> <<" ">> \o S_origin \o <<" ", ",">> \o S_peer
      [] text = "," -> <<",">>
      [] text = " 10.0.0.1" -> <<" ">> \o S_peer
      [] text = "\f203.0.113.5\t" -> <<"\f">> \o S_origin \o <<"\t">>

Text(chars) == CHOOSE text \in Texts : Chars(text) = chars

StartsWith(s, prefix) ==
    /\ Len(s) >= Len(prefix)
    /\ SubSeq(s, 1, Len(prefix)) = prefix

\* str.strip() without an argument removes whitespace: of the characters a
\* header value can hold (code points 0 to 255), the tab, line feed, vertical
\* tab, form feed, carriage return, the separators 28 to 31, the space, the
\* next line (133) and the no-break space (160)
IsSpace(c) ==
    c \in {" ", "\t", "\n", "\r", "\f", "", "", "", "", "",
           "", " "}

RECURSIVE LStrip(_)
LStrip(s) == IF s # <<>> /\ IsSpace(Head(s)) THEN LStrip(Tail(s)) ELSE s

RECURSIVE RStrip(_)
RStrip(s) ==
    IF s # <<>> /\ IsSpace(s[Len(s)]) THEN RStrip(SubSeq(s, 1, Len(s) - 1)) ELSE s

Strip(s) == RStrip(LStrip(s))

\* a mistaken token: the last address of the list, the proxy nearest to the server
RECURSIVE LastToken(_)
LastToken(s) ==
    IF s = <<>> \/ s[Len(s)] = "," THEN <<>>
    ELSE LastToken(SubSeq(s, 1, Len(s) - 1)) \o <<s[Len(s)]>>

\* forwarded_for.split(",")[0]
RECURSIVE FirstToken(_)
FirstToken(s) ==
    IF s = <<>> \/ Head(s) = "," THEN <<>> ELSE <<Head(s)>> \o FirstToken(Tail(s))

DigitChar(d) == <<"0", "1", "2", "3", "4", "5", "6", "7", "8", "9">>[d + 1]

\* str(n) for an integer n >= 0: its decimal digits
RECURSIVE Str(_)
Str(n) == IF n < 10 THEN <<DigitChar(n)>> ELSE Str(n \div 10) \o <<DigitChar(n % 10)>>

\* a mistaken digest: the same for every credential
Sha256HexPrefixOfNothing(s) == "e3b0c44298fc1c14"

\* hashlib.sha256(authorization.encode()).hexdigest()[:16] of the header
\* values the model uses: the first HASH_PREFIX_LEN hexadecimal digits of
\* their SHA-256 digests
Sha256HexPrefix(s) ==
    CASE s = "Bearer abc" -> "c355dce96c161288"
      [] s = "Bearer xyz" -> "cf273736dc60ae89"
      [] s = "Bearer " -> "35e5a9632e18bc9a"

----------------------------------------------------------------------------
(* Requests *)

ScopeTypes == {"http", "websocket"}
\* a mistaken exemption list: the interactive documentation is missing
ExemptPathsWithoutDocs == {"/health", "/redoc", "/openapi.json"}

ExemptPaths == {"/health", "/docs", "/redoc", "/openapi.json"}

Paths == {"/health", "/docs", "/redoc", "/openapi.json", "/health/", "/api/v1/accounts"}
ApiPaths == {"/api/v1/accounts"}
AuthHeaders == {None, Some("Bearer abc")}
Peers == {Some("10.0.0.1")}
ForwardedFors == {None}

AllScopes ==
    [type : ScopeTypes, path : Paths, authorization : AuthHeaders,
     client : Peers, forwarded_for : ForwardedFors]

\* the requests of the one-client state machine: an API path with a
\* credential, the exempt paths, one non-HTTP connection
Scopes ==
    {s \in AllScopes :
        \/ s.type = "http" /\ s.path \in ApiPaths /\ s.authorization # None
        \/ s.type = "http" /\ s.path \in Paths \ (ApiPaths \cup {"/health/"})
                           /\ s.authorization = None
        \/ s.type = "websocket" /\ s.path \in ApiPaths /\ s.authorization = None}

\* the requests of the two-client state machine: both reach check_rate_limit,
\* one with a credential (user: key), one without (ip: key)
TwoClientScopes ==
    {s \in AllScopes :
        \/ s.type = "http" /\ s.path \in ApiPaths /\ s.authorization # None
        \/ s.type = "http" /\ s.path = "/health/" /\ s.authorization = None}

\* a header is falsy when it is absent or the empty string
Truthy(header) == header # None /\ header[1] # ""

get_client_id(request) ==
    LET authorization == request.authorization
        forwarded_for == request.forwarded_for
    IN  IF Truthy(authorization) /\ StartsWith(Chars(authorization[1]), Chars("Bearer "))
        THEN [class |-> "user:", id |-> Sha256HexPrefix(authorization[1])]
        ELSE LET client_ip ==
                     IF request.client # None THEN request.client[1] ELSE "unknown"
             IN  [class |-> "ip:",
                  id |-> IF Truthy(forwarded_for)
                         THEN Text(Strip(FirstToken(Chars(forwarded_for[1]))))
                         ELSE client_ip]

ClientIds == {get_client_id(r) : r \in AllScopes}

\* a mistaken key: one sorted set for all clients
RedisKeyShared(client_id) == [prefix |-> "rate_limit:", client |-> None]

RedisKey(client_id) == [prefix |-> "rate_limit:", client |-> client_id]

Keys == {RedisKey(c) : c \in ClientIds}

----------------------------------------------------------------------------
(* The store: Redis commands on one state S = [z |-> zsets, e |-> expiry] *)

\* a mistaken range: the upper score is excluded
ZRemRangeByScoreExclusive(zset, min, max) ==
    {el \in zset : ~(min <= el.score /\ el.score < max)}

ZRemRangeByScore(zset, min, max) ==
    {el \in zset : ~(min <= el.score /\ el.score <= max)}

ZCard(zset) == Cardinality(zset)

ZAdd(zset, member, score) ==
    {el \in zset : el.member # member} \cup {[member |-> member, score |-> score]}

\* a key whose sorted set is empty does not exist and carries no time-to-live
Normalise(S) ==
    [z |-> S.z, e |-> [k \in Keys |-> IF S.z[k] = {} THEN NoTTL ELSE S.e[k]]]

redis_zremrangebyscore(S, key, min, max) ==
    Normalise([S EXCEPT !.z[key] = ZRemRangeByScore(S.z[key], min, max)])

redis_zcard(S, key) == ZCard(S.z[key])

redis_zadd(S, key, member, score) ==
    [S EXCEPT !.z[key] = ZAdd(S.z[key], member, score)]

\* EXPIRE sets the time-to-live of an existing key and does nothing otherwise
redis_expire(S, key, seconds, clock) ==
    IF S.z[key] = {} THEN S ELSE [S EXCEPT !.e[key] = clock + seconds]

\* no store operation raised; otherwise error is the position of the one that did
NoFault == 0

----------------------------------------------------------------------------
(* RateLimitMiddleware.check_rate_limit, command by command.  Each of the   *)
(* four store commands is one round trip to the store: between two of them  *)
(* the clock moves, a time-to-live elapses and the commands of other        *)
(* processes are served.  A store operation that raises has no effect on    *)
(* the store.                                                               *)

\* the except branch: "If Redis is down, allow the request"
OnStoreError == TRUE

\* a mistaken comparison: request_count > RATE_LIMIT_REQUESTS
LimitExceededOnly(cfg, client_id) == cfg.RATE_LIMIT_REQUESTS + 1

Limit(cfg, client_id) == cfg.RATE_LIMIT_REQUESTS

\* a mistaken order: the entries are counted before the old ones are removed
StoreOpsCountFirst == <<"zcard", "zremrangebyscore", "zadd", "expire">>

\* the store commands of one check, in the order of the statements
StoreOps == <<"zremrangebyscore", "zcard", "zadd", "expire">>

OpIndex(op) == CHOOSE i \in 1 .. Len(StoreOps) : StoreOps[i] = op

\* the command that follows op, "idle" when op is the last
After(op) == IF OpIndex(op) < Len(StoreOps) THEN StoreOps[OpIndex(op) + 1] ELSE "idle"

\* redis_client.zremrangebyscore(key, 0, window_start)
Prune(cfg, client_id, S, current_time) ==
    LET key == RedisKey(client_id)
        window_start == current_time - cfg.RATE_LIMIT_PERIOD
    IN  redis_zremrangebyscore(S, key, 0, window_start)

\* request_count = redis_client.zcard(key)
Count(S, client_id) == redis_zcard(S, RedisKey(client_id))

\* if request_count >= settings.RATE_LIMIT_REQUESTS: return False
Rejects(cfg, client_id, request_count) == request_count >= Limit(cfg, client_id)

\* redis_client.zadd(key, {str(current_time): current_time})
Record(S, client_id, current_time) ==
    redis_zadd(S, RedisKey(client_id), Str(current_time), current_time)

\* redis_client.expire(key, settings.RATE_LIMIT_PERIOD), served at the given
\* clock
Refresh(cfg, S, client_id, clock) ==
    redis_expire(S, RedisKey(client_id), cfg.RATE_LIMIT_PERIOD, clock)

\* a mistaken rejection: the call is recorded before it is refused
StoreAfterRecording(counted, recorded) == recorded

\* `return False` precedes zadd and expire: a rejecting check leaves the store
\* as its count found it
StoreAfterRejection(counted, recorded) == counted

----------------------------------------------------------------------------
(* RateLimitMiddleware.__call__ *)

\* starlette's JSONResponse given no headers: the rendered body, and the two
\* headers the response sets itself, a list of pairs in this order
JSONResponse(status_code, content) ==
    [status |-> status_code, content |-> content,
     headers |-> <<[name |-> "content-length", value |-> "len(body)"],
                   [name |-> "content-type", value |-> "application/json"]>>]

\* a mistaken payload: the retry hint carries the limit
RejectionContentSwapped(cfg) ==
    [error |-> "Rate limit exceeded",
     message |-> <<"Maximum ", Str(cfg.RATE_LIMIT_REQUESTS), " requests per ",
                   Str(cfg.RATE_LIMIT_PERIOD), " seconds">>,
     retry_after |-> cfg.RATE_LIMIT_REQUESTS]

RejectionContent(cfg) ==
    [error |-> "Rate limit exceeded",
     message |-> <<"Maximum ", Str(cfg.RATE_LIMIT_REQUESTS), " requests per ",
                   Str(cfg.RATE_LIMIT_PERIOD), " seconds">>,
     retry_after |-> cfg.RATE_LIMIT_PERIOD]

RejectionResponse(cfg) == JSONResponse(HTTP_429_TOO_MANY_REQUESTS, RejectionContent(cfg))

\* the requests that __call__ hands to the application without a check
Forwards(scope) == scope.type # "http" \/ scope.path \in ExemptPaths

\* the record of a request that was handed on without a check
Bypassed(scope, clock) ==
    [kind |-> IF scope.type # "http" THEN "passthrough" ELSE "exempt",
     path |-> scope.path, client |-> None, time |-> clock, ops |-> <<>>,
     error |-> NoFault, count |-> -1, forwarded |-> TRUE,
     response |-> None]

\* the record of a request whose check returned: result is what
\* check_rate_limit returned, nops the store commands it issued, error the
\* position of the one that raised
Checked(cfg, scope, client_id, result, current_time, nops, error, count) ==
    [kind |-> IF result THEN "admitted" ELSE "rejected",
     path |-> scope.path, client |-> Some(client_id), time |-> current_time,
     ops |-> SubSeq(StoreOps, 1, nops), error |-> error, count |-> count,
     forwarded |-> result,
     response |-> IF result THEN None ELSE Some(RejectionResponse(cfg))]

\* the record of a request whose check raised: a store command raised and
\* the print of the except branch raised in turn (an OSError of the standard
\* output), so that check_rate_limit returns nothing and the exception
\* leaves __call__; the request is not handed on, and starlette's
\* ServerErrorMiddleware answers with its plain-text 500
Raised(scope, client_id, current_time, nops, count) ==
    [kind |-> "failed",
     path |-> scope.path, client |-> Some(client_id), time |-> current_time,
     ops |-> SubSeq(StoreOps, 1, nops), error |-> nops, count |-> count,
     forwarded |-> FALSE,
     response |-> Some([status |-> HTTP_500_INTERNAL_SERVER_ERROR,
                        content |-> "Internal Server Error",
                        headers |-> <<[name |-> "content-length", value |-> "len(body)"],
                                      [name |-> "content-type",
                                       value |-> "text/plain; charset=utf-8"]>>])]

----------------------------------------------------------------------------
(* The middleware stack of main.py.  Starlette's add_middleware inserts at  *)
(* the front of user_middleware and the stack is built so that the first of *)
(* the list is the outermost: the middleware added last is entered first.   *)
(* A middleware passes to the next the send it wants the response to go     *)
(* through.                                                                 *)

\* the classes in the order of the add_middleware calls
AddedMiddleware == <<"CORSMiddleware", "RateLimitMiddleware", "LoggingMiddleware">>

\* a mistaken order: the middleware added first is entered first
add_middleware_last(user_middleware, cls) == Append(user_middleware, cls)

\* self.user_middleware.insert(0, Middleware(cls))
add_middleware(user_middleware, cls) == <<cls>> \o user_middleware

RECURSIVE AddAll(_, _)
AddAll(user_middleware, classes) ==
    IF classes = <<>> THEN user_middleware
    ELSE AddAll(add_middleware(user_middleware, Head(classes)), Tail(classes))

\* outermost first
MiddlewareStack == AddAll(<<>>, AddedMiddleware)

\* str(uuid.uuid4())[:8] and the formatted time.time() - start_time: values
\* the model does not compute
REQUEST_ID == "request_id"
PROCESS_TIME == "process_time"

\* the http.response.start message of a response
ResponseStart(response) ==
    [type |-> "http.response.start", status |-> response.status,
     headers |-> response.headers]

\* starlette's HTMLResponse: the page of the interactive documentation
HTMLResponse(status_code, content) ==
    [status |-> status_code, content |-> content,
     headers |-> <<[name |-> "content-length", value |-> "len(body)"],
                   [name |-> "content-type", value |-> "text/html; charset=utf-8"]>>]

\* starlette's RedirectResponse: an empty body, no media type, status 307;
\* the location is set on the headers after Response.__init__ has set the
\* content-length
RedirectResponse(url) ==
    [status |-> 307, content |-> "",
     headers |-> <<[name |-> "content-length", value |-> "len(body)"],
                   [name |-> "location", value |-> url]>>]

\* the paths on which main.py registers a route: the routes of the
\* application object and "/" of the accounts router under its prefix
RoutePaths == {"/health", "/docs", "/redoc", "/openapi.json", "/api/v1/accounts/"}

\* Router.redirect_slashes: the path with its final slash removed or added
Slashed(path) ==
    CASE path = "/health/" -> "/health"
      [] path = "/api/v1/accounts" -> "/api/v1/accounts/"
      [] OTHER -> path

\* the first message main.app sends for a request that reaches it.  The
\* requests drawn are GET requests to http://testserver.  A path of a route is answered by the
\* route, a path that differs from one by its final slash is redirected, and
\* any other gets 404; main.app has no websocket route on the paths drawn and
\* closes the connection.
ApplicationMessage(scope) ==
    IF scope.type # "http" THEN [type |-> "websocket.close"]
    ELSE IF scope.path \in {"/docs", "/redoc"}
         THEN ResponseStart(HTMLResponse(HTTP_200_OK, "body"))
    ELSE IF scope.path \in RoutePaths
         THEN ResponseStart(JSONResponse(HTTP_200_OK, "body"))
    ELSE IF Slashed(scope.path) \in RoutePaths
         THEN ResponseStart(RedirectResponse("http://testserver" \o Slashed(scope.path)))
    ELSE ResponseStart(JSONResponse(HTTP_404_NOT_FOUND, "body"))

\* headers[name] = value on a dict, given as the list of its items: the
\* value of a key the dict holds is replaced where the key stands, a new key
\* is added at the end
SetHeader(headers, name, value) ==
    IF \E i \in DOMAIN headers : headers[i].name = name
    THEN [i \in DOMAIN headers |->
             IF headers[i].name = name THEN [name |-> name, value |-> value]
             ELSE headers[i]]
    ELSE Append(headers, [name |-> name, value |-> value])

RECURSIVE dict(_)
\* dict(pairs) of a list of pairs: one item per name, at the place of the
\* first pair of the name and with the value of the last
dict(pairs) ==
    IF pairs = <<>> THEN <<>>
    ELSE LET n == Len(pairs)
         IN  SetHeader(dict(SubSeq(pairs, 1, n - 1)), pairs[n].name, pairs[n].value)


RequestLine(scope) ==
    [event |-> "request", request_id |-> REQUEST_ID, path |-> scope.path,
     client |-> IF scope.client # None THEN scope.client[1] ELSE "unknown"]

ResponseLine(status_code) ==
    [event |-> "response", request_id |-> REQUEST_ID, status |-> status_code]

\* LoggingMiddleware.send_wrapper: message["headers"] = list(headers.items())
\* is set on every response start, also one that came with no headers
\* (message.get("headers", []))
send_wrapper(message) ==
    IF message.type = "http.response.start"
    THEN LET given == IF "headers" \in DOMAIN message THEN message.headers ELSE <<>>
             headers == SetHeader(SetHeader(dict(given), "x-request-id", REQUEST_ID),
                                  "x-process-time", PROCESS_TIME)
         IN  [f \in DOMAIN message \cup {"headers"} |->
                 IF f = "headers" THEN headers ELSE message[f]]
    ELSE message

\* one request through the stack, outermost first, up to the first message
\* sent for it; rejection is the response RateLimitMiddleware.__call__
\* answers with, None when it hands the request on
RECURSIVE Serve(_, _, _)
Serve(stack, scope, rejection) ==
    IF stack = <<>>
    THEN [entered |-> <<"app">>, log |-> <<>>, start |-> ApplicationMessage(scope)]
    ELSE LET inner == Serve(Tail(stack), scope, rejection)
             passed == [inner EXCEPT !.entered = <<Head(stack)>> \o @]
         IN  CASE Head(stack) = "LoggingMiddleware" ->
                      IF scope.type # "http" THEN passed
                      ELSE [entered |-> passed.entered,
                            log |-> <<RequestLine(scope)>> \o inner.log
                                        \o <<ResponseLine(inner.start.status)>>,
                            start |-> send_wrapper(inner.start)]
               [] Head(stack) = "RateLimitMiddleware" ->
                      IF rejection # None
                      THEN [entered |-> <<Head(stack)>>, log |-> <<>>,
                            start |-> ResponseStart(rejection[1])]
                      ELSE passed
               [] OTHER -> passed

----------------------------------------------------------------------------
(* State machine: one gate process, as uvicorn.run starts it.  The process  *)
(* runs one check at a time (check_rate_limit holds no await and the Redis  *)
(* client is synchronous), command by command; the clock and the            *)
(* time-to-live of the keys act between the commands.  A request that       *)
(* passed the gate is with the application, which answers it later: the     *)
(* checks of further requests run before that answer.  Spec draws every     *)
(* kind of request, those that reach the store from one client; SpecTwo     *)
(* draws the requests of two clients that reach the store.                  *)

Procs == 1 .. NumProcs

\* uvicorn.run(...) names no workers: one process
Workers == {p \in Procs : p - 1 \notin Procs}

IdleProc == [pc |-> "idle", scope |-> None, client |-> None, current_time |-> 0,
             request_count |-> -1]

NoCall == [kind |-> "none", path |-> "", client |-> None, time |-> -1, ops |-> <<>>,
           error |-> NoFault, count |-> -1, forwarded |-> FALSE,
           response |-> None]

SettingsSpace ==
    [RATE_LIMIT_REQUESTS : 1 .. MaxLimit, RATE_LIMIT_PERIOD : 2 .. MaxWindow]

RECURSIVE SumLen(_, _)
SumLen(f, S) ==
    IF S = {} THEN 0
    ELSE LET x == CHOOSE y \in S : TRUE IN Len(f[x]) + SumLen(f, S \ {x})

TotalAdmits == SumLen(admits, ClientIds)

\* the history of admissions: the second the check read, the second in which
\* it returned, and whether its zadd was served
Admit(c, time, decided, recorded) ==
    [admits EXCEPT ![c] = Append(@, [time |-> time, decided |-> decided,
                                     recorded |-> recorded])]

\* the latest rejection, while no admission of its client has followed
Noted == IF Len(refused) = 2 THEN refused ELSE <<>>

\* the history of the latest rejection after a call made at the given time
Refusal(call, time) ==
    IF call.kind = "rejected" THEN <<call.client[1], time>>
    ELSE IF call.kind = "admitted" /\ Noted # <<>> /\ Noted[1] = call.client[1]
         THEN Append(Noted, time)
    ELSE Noted

MaxTransfers == 2          \* transfer ids

\* the ids a client names and generate_id returns
TransferIds == 1 .. MaxTransfers

InitStore ==
    /\ now = 0
    /\ zsets = [k \in Keys |-> {}]
    /\ expiry = [k \in Keys |-> NoTTL]
    /\ procs = [p \in Procs |-> IdleProc]
    /\ admits = [c \in ClientIds |-> <<>>]
    /\ faults = 0
    /\ last = NoCall
    /\ refused = <<>>
    /\ pending = EmptyBag
    /\ served = None
    /\ resolved = None
    /\ tasks = <<>>
    /\ jobs = <<>>
    /\ transfers = [id \in TransferIds |->
                        [saved |-> FALSE, amount |-> None, status |-> None,
                         is_recurring |-> None, schedule |-> FALSE]]
    /\ reply = None

Init ==
    /\ settings \in SettingsSpace
    /\ InitStore

Store == [z |-> zsets, e |-> expiry]

\* a step in which no request is decided, handed on or answered
NoAnswer ==
    /\ last' = NoCall
    /\ served' = None
    /\ refused' = Noted
    /\ pending' = pending

\* a key whose time-to-live has elapsed is gone
Expired(S, keys) ==
    [z |-> [k \in Keys |-> IF k \in keys THEN {} ELSE S.z[k]],
     e |-> [k \in Keys |-> IF k \in keys THEN NoTTL ELSE S.e[k]]]

\* The clock advances by one second.  A key whose time-to-live elapsed at or
\* before the second that ends is gone in the next second.
AdvanceClock ==
    LET S == Expired(Store, {k \in Keys : expiry[k] # NoTTL /\ expiry[k] <= now})
    IN  /\ now' = now + 1
        /\ zsets' = S.z
        /\ expiry' = S.e

Tick ==
    /\ now < MaxTime
    /\ AdvanceClock
    /\ NoAnswer
    /\ UNCHANGED <<resolved, routerVars, settings, procs, admits, faults>>

\* The time-to-live is counted from the instant of the EXPIRE command, the
\* clock of the check is truncated to seconds: within the second in which the
\* time-to-live elapses the key may already be gone.
ExpireKey(k) ==
    /\ expiry[k] # NoTTL
    /\ expiry[k] <= now
    /\ zsets' = Expired(Store, {k}).z
    /\ expiry' = Expired(Store, {k}).e
    /\ NoAnswer
    /\ UNCHANGED <<resolved, routerVars, settings, now, procs, admits, faults>>

\* the zadd of the check was served
Recorded(call) ==
    \E i \in 1 .. Len(call.ops) : call.ops[i] = "zadd" /\ i # call.error

\* the requests in flight behind the gate
InFlight == BagCardinality(pending)

\* __call__ has decided what to do with a request: a rejection is answered
\* at once (`await response(scope, receive, send)` sends the response start
\* through the middlewares above without returning to the event loop); any
\* other request is handed to the application (`await self.app(scope,
\* receive, send)`), which answers in a later step
Answer(p, scope, call) ==
    /\ last' = call
    /\ IF call.forwarded
       THEN /\ served' = None
            /\ pending' = pending (+) SetToBag({[proc |-> p, scope |-> scope]})
       ELSE /\ served' = Some(Serve(MiddlewareStack, scope, call.response))
            /\ pending' = pending
    /\ refused' = Refusal(call, call.time)
    /\ admits' = IF call.kind = "admitted"
                 THEN Admit(call.client[1], call.time, now, Recorded(call))
                 ELSE admits

\* check_rate_limit returns to __call__, which answers or forwards
Return(p, result, nops, error, count) ==
    LET call == Checked(settings, procs[p].scope[1], procs[p].client[1], result,
                        procs[p].current_time, nops, error, count)
    IN  /\ procs' = [procs EXCEPT ![p] = IdleProc]
        /\ Answer(p, procs[p].scope[1], call)

\* a request that is not checked is handed to the application
Bypass(p, scope) ==
    /\ Forwards(scope)
    /\ Answer(p, scope, Bypassed(scope, now))
    /\ UNCHANGED <<zsets, expiry, procs>>

\* the application sends the first message for a request handed to it by
\* the process p; the message passes the send of every middleware above.
\* The event loop of p runs the application only while p is not inside a
\* check, whose store commands block it
ApplicationResponds(p, scope) ==
    /\ procs[p].pc = "idle"
    /\ BagIn([proc |-> p, scope |-> scope], pending)
    /\ pending' = pending (-) SetToBag({[proc |-> p, scope |-> scope]})
    /\ served' = Some(Serve(MiddlewareStack, scope, None))
    /\ last' = NoCall
    /\ refused' = Noted
    /\ UNCHANGED <<resolved, routerVars, settings, now, zsets, expiry, procs, admits,
                   faults>>

\* __call__ up to the first store operation: the key and current_time are fixed
Begin(p, scope) ==
    /\ ~Forwards(scope)
    /\ procs' = [procs EXCEPT ![p] = [pc |-> StoreOps[1], scope |-> Some(scope),
                                      client |-> Some(get_client_id(scope)),
                                      current_time |-> now, request_count |-> -1]]
    /\ NoAnswer
    /\ UNCHANGED <<zsets, expiry, admits>>

\* one request reaches the gate of a process that serves none
Dispatch(p, scope) ==
    /\ procs[p].pc = "idle"
    /\ Bypass(p, scope) \/ Begin(p, scope)
    /\ UNCHANGED <<resolved, routerVars, settings, now, faults>>

\* ZREMRANGEBYSCORE
StepPrune(p) ==
    /\ procs[p].pc = "zremrangebyscore"
    /\ \E S1 \in {Prune(settings, procs[p].client[1], Store, procs[p].current_time)} :
           /\ zsets' = S1.z
           /\ expiry' = S1.e
    /\ procs' = [procs EXCEPT ![p].pc = After("zremrangebyscore")]
    /\ NoAnswer
    /\ UNCHANGED <<resolved, routerVars, settings, now, admits, faults>>

\* ZCARD and the comparison with the limit; a rejected check returns here
StepCount(p) ==
    LET client_id == procs[p].client[1]
        request_count == Count(Store, client_id)
        S == StoreAfterRejection(
                 Store, Refresh(settings, Record(Store, client_id, procs[p].current_time),
                                client_id, now))
    IN  /\ procs[p].pc = "zcard"
        /\ IF Rejects(settings, client_id, request_count)
           THEN /\ Return(p, FALSE, OpIndex("zcard"), NoFault, request_count)
                /\ zsets' = S.z
                /\ expiry' = S.e
           ELSE /\ procs' = [procs EXCEPT ![p].pc = After("zcard"),
                                          ![p].request_count = request_count]
                /\ NoAnswer
                /\ UNCHANGED <<zsets, expiry, admits>>
        /\ UNCHANGED <<resolved, routerVars, settings, now, faults>>

\* ZADD
StepAdd(p) ==
    /\ procs[p].pc = "zadd"
    /\ \E S2 \in {Record(Store, procs[p].client[1], procs[p].current_time)} :
           /\ zsets' = S2.z
           /\ expiry' = S2.e
    /\ procs' = [procs EXCEPT ![p].pc = After("zadd")]
    /\ NoAnswer
    /\ UNCHANGED <<resolved, routerVars, settings, now, admits, faults>>

\* EXPIRE, and the check returns true
StepExpire(p) ==
    /\ procs[p].pc = "expire"
    /\ \E S3 \in {Refresh(settings, Store, procs[p].client[1], now)} :
           /\ zsets' = S3.z
           /\ expiry' = S3.e
    /\ Return(p, TRUE, OpIndex("expire"), NoFault, procs[p].request_count)
    /\ UNCHANGED <<resolved, routerVars, settings, now, faults>>

\* the process p waits for the reply of the store command it has sent
AwaitsStore(p) == procs[p].pc \in {StoreOps[i] : i \in 1 .. Len(StoreOps)}

\* the store command that p issues raises.  The except branch prints and
\* returns; when the print raises, the exception leaves check_rate_limit and
\* __call__ through LoggingMiddleware, whose send the 500 of the server
\* error handler above it does not pass: the request was logged, the
\* response is not
StoreRaises(p, print_raises) ==
    /\ AwaitsStore(p)
    /\ faults < MaxFaults
    /\ faults' = faults + 1
    /\ IF print_raises
       THEN LET scope == procs[p].scope[1]
                call == Raised(scope, procs[p].client[1], procs[p].current_time,
                               OpIndex(procs[p].pc), procs[p].request_count)
                gate == CHOOSE i \in 1 .. Len(MiddlewareStack) :
                            MiddlewareStack[i] = "RateLimitMiddleware"
                entered == SubSeq(MiddlewareStack, 1, gate)
            IN  /\ procs' = [procs EXCEPT ![p] = IdleProc]
                /\ last' = call
                /\ served' = Some([entered |-> entered,
                                   log |-> IF \E i \in 1 .. gate :
                                                 entered[i] = "LoggingMiddleware"
                                           THEN <<RequestLine(scope)>> ELSE <<>>,
                                   start |-> ResponseStart(call.response[1])])
                /\ refused' = Refusal(call, call.time)
                /\ UNCHANGED <<pending, admits>>
       ELSE Return(p, OnStoreError, OpIndex(procs[p].pc), OpIndex(procs[p].pc),
                   procs[p].request_count)
    /\ UNCHANGED <<resolved, routerVars, settings, now, zsets, expiry>>

\* the store commands of check_rate_limit, one per step
check_rate_limit(p) ==
    \/ StepPrune(p)
    \/ StepCount(p)
    \/ StepAdd(p)
    \/ StepExpire(p)

\* a request arrives; the history of admissions and the requests in flight
\* are capped by the bounds of the model
Call(scope) ==
    /\ TotalAdmits < MaxAdmits
    /\ InFlight < MaxInFlight
    /\ \E p \in Workers : Dispatch(p, scope)

Next ==
    \/ Tick
    \/ \E k \in Keys : ExpireKey(k)
    \/ \E scope \in Scopes : Call(scope)
    \/ \E p \in Workers : check_rate_limit(p)
    \/ \E p \in Workers, print_raises \in BOOLEAN : StoreRaises(p, print_raises)
    \/ \E p \in Workers, scope \in AllScopes : ApplicationResponds(p, scope)

Spec == Init /\ [][Next]_vars

\* the same gate with the requests of two clients
NextTwo ==
    \/ Tick
    \/ \E k \in Keys : ExpireKey(k)
    \/ \E scope \in TwoClientScopes : Call(scope)
    \/ \E p \in Workers : check_rate_limit(p)
    \/ \E p \in Workers, print_raises \in BOOLEAN : StoreRaises(p, print_raises)
    \/ \E p \in Workers, scope \in AllScopes : ApplicationResponds(p, scope)

SpecTwo == Init /\ [][NextTwo]_vars

----------------------------------------------------------------------------
(* State machine: NumProcs gate processes (workers) share the store; each   *)
(* runs its checks one at a time, and the store operations of different     *)
(* processes interleave.  The store is healthy and the calls are those of   *)
(* one client.                                                              *)

CheckedScopes ==
    {s \in AllScopes : s.type = "http" /\ s.path \in ApiPaths /\ s.authorization = None}

ConcCall(p, scope) ==
    /\ TotalAdmits < MaxConcAdmits
    /\ InFlight < MaxInFlight
    /\ Dispatch(p, scope)

NextConc ==
    \/ Tick
    \/ \E k \in Keys : ExpireKey(k)
    \/ \E p \in Procs, scope \in CheckedScopes : ConcCall(p, scope)
    \/ \E p \in Procs : check_rate_limit(p)
    \/ \E p \in Procs, scope \in AllScopes : ApplicationResponds(p, scope)

SpecConc == Init /\ [][NextConc]_vars

----------------------------------------------------------------------------
(* State machine: the processes of SpecConc against a store that may never  *)
(* answer.  redis_client is built by redis.Redis.from_url(REDIS_URL,        *)
(* decode_responses=True) with no socket_timeout and the default REDIS_URL  *)
(* names none, so a command whose reply never arrives is awaited without    *)
(* limit: no exception is raised and the except branch is never entered.    *)
(* A process whose command got its reply continues (weak fairness of its    *)
(* steps); nothing obliges a client to call or the store to stay silent.    *)

\* the reply of the command that p has sent never arrives: p stays in the
\* blocking socket read of that command
StoreNeverResponds(p) ==
    /\ AwaitsStore(p)
    /\ faults < MaxFaults
    /\ procs' = [procs EXCEPT ![p].pc = "blocked"]
    /\ faults' = faults + 1
    /\ NoAnswer
    /\ UNCHANGED <<resolved, routerVars, settings, now, zsets, expiry, admits>>

NextLive ==
    \/ Tick
    \/ \E k \in Keys : ExpireKey(k)
    \/ \E p \in Procs, scope \in CheckedScopes : ConcCall(p, scope)
    \/ \E p \in Procs : check_rate_limit(p)
    \/ \E p \in Procs, scope \in AllScopes : ApplicationResponds(p, scope)
    \/ \E p \in Procs : StoreNeverResponds(p)

FairLive == \A p \in Procs : WF_vars(check_rate_limit(p))

SpecLive == Init /\ [][NextLive]_vars /\ FairLive

----------------------------------------------------------------------------
(* State machine: the settings of core/config.py as they stand (100 calls   *)
(* per 60 seconds), a healthy store, and two clients, one with a bearer     *)
(* credential and one without, each calling an API path once per second,    *)
(* the one with the credential first, and a monitor probing /health.  Every *)
(* call of this scenario gets its answer within the second in which it was  *)
(* made.                                                                    *)

DefaultSettings ==
    [RATE_LIMIT_REQUESTS |-> DEFAULT_RATE_LIMIT_REQUESTS,
     RATE_LIMIT_PERIOD |-> DEFAULT_RATE_LIMIT_PERIOD]

InitDefault ==
    /\ settings = DefaultSettings
    /\ InitStore

PollScopes == {s \in AllScopes : s.type = "http" /\ s.path \in ApiPaths}

\* the client of the scope has made its call of this second
CalledThisSecond(scope) ==
    LET mine == admits[get_client_id(scope)]
    IN  \/ \E i \in 1 .. Len(mine) : mine[i].time = now
        \/ \E p \in Workers : /\ procs[p].client = Some(get_client_id(scope))
                              /\ procs[p].current_time = now

PollCall(scope) ==
    /\ ~CalledThisSecond(scope)
    /\ InFlight < MaxInFlight
    /\ scope.authorization = None =>
           \A other \in PollScopes \ {scope} : CalledThisSecond(other)
    /\ \E p \in Workers : Dispatch(p, scope)

PollProbe ==
    \E scope \in Scopes, p \in Workers :
        /\ scope.type = "http"
        /\ scope.path = "/health"
        /\ InFlight < MaxInFlight
        /\ Dispatch(p, scope)

PollTick ==
    /\ now < MaxPollTime
    /\ \A p \in Workers : procs[p].pc = "idle"
    /\ pending = EmptyBag
    /\ \A scope \in PollScopes : CalledThisSecond(scope)
    /\ AdvanceClock
    /\ NoAnswer
    /\ UNCHANGED <<resolved, routerVars, settings, procs, admits, faults>>

NextDefault ==
    \/ PollTick
    \/ \E scope \in PollScopes : PollCall(scope)
    \/ PollProbe
    \/ \E p \in Workers : check_rate_limit(p)
    \/ \E p \in Workers, scope \in AllScopes : ApplicationResponds(p, scope)

SpecDefault == InitDefault /\ [][NextDefault]_vars

----------------------------------------------------------------------------
(* State machine: the identity resolver alone.  get_client_id reads the     *)
(* Authorization header, request.client and the X-Forwarded-For header of   *)
(* the request and nothing else, and writes nothing; each step applies it   *)
(* to one request drawn from the headers and peers below.                   *)

ResolverAuths ==
    {None, Some(""), Some("Bearer abc"), Some("Bearer xyz"), Some("Bearer "),
     Some("Basic abc"), Some("bearer abc")}
ResolverPeers == {None, Some("10.0.0.1"), Some("10.0.0.2")}
ResolverForwards ==
    {None, Some(""), Some("203.0.113.5"), Some("203.0.113.5, 10.0.0.1"),
     Some(" 203.0.113.5 ,10.0.0.1"), Some(","), Some("\f203.0.113.5\t")}

ResolverRequests ==
    [authorization : ResolverAuths, client : ResolverPeers,
     forwarded_for : ResolverForwards]

Resolve(request) ==
    /\ resolved' = Some([request |-> request, client_id |-> get_client_id(request)])
    /\ UNCHANGED <<limiterVars, routerVars>>

NextResolver == \E request \in ResolverRequests : Resolve(request)

SpecResolver == InitDefault /\ [][NextResolver]_vars

----------------------------------------------------------------------------
(* routers/danger_zone.py: request_data_deletion, cancel_deletion and the   *)
(* background job execute_user_data_deletion.  The database helpers of the  *)
(* router are the ones in the source: those that write (save_deletion_task, *)
(* update_deletion_task_status) have the body `pass`, and tasks records     *)
(* what the handlers hand them, per task the status last written; those     *)
(* that read (get_active_deletion_task, get_deletion_task_by_id) return     *)
(* the constants they return in the source.  A task id (a fresh uuid) is    *)
(* the position of the task in tasks.                                       *)

MaxTasks == 2            \* deletion tasks created
MIN_CONFIRMATIONS == 4   \* Field(..., min_items=4, max_items=4)
MAX_CONFIRMATIONS == 4
NUM_DELETION_STEPS == 8  \* len(deletion_steps)
HTTP_400_BAD_REQUEST == 400
HTTP_409_CONFLICT == 409
HTTP_422_UNPROCESSABLE_ENTITY == 422

Users == {"user_1", "user_2"}

ConfirmationLevel == {"level_1", "level_2", "level_3", "level_4"}
DeletionStatus == {"requested", "in_progress", "completed", "failed", "cancelled"}

required_texts(level) ==
    CASE level = "level_1" -> "ELIMINAR TODOS MIS DATOS"
      [] level = "level_2" -> "ENTIENDO QUE ESTA ACCIÓN ES IRREVERSIBLE"
      [] level = "level_3" -> "CONFIRMO ELIMINAR TRANSACCIONES PAGOS TRANSFERENCIAS CUENTAS"
      [] level = "level_4" -> "CONFIRMO ELIMINACIÓN DEFINITIVA DE TODOS MIS DATOS FINANCIEROS"

\* the fields of DeletionConfirmation in the order of their declaration:
\* pydantic validates them in this order
DeletionConfirmationFields ==
    <<"confirmation_text", "confirmation_level", "user_understands_consequences">>

FieldIsValid(conf, field) ==
    CASE field = "confirmation_text" -> TRUE      \* any str
      [] field = "confirmation_level" -> conf[field] \in ConfirmationLevel
      [] field = "user_understands_consequences" -> conf[field] \in BOOLEAN

\* the `values` a validator of the i-th field receives: the fields declared
\* before it that passed validation
ValuesAt(conf, i) ==
    LET before == {DeletionConfirmationFields[j] : j \in 1 .. i - 1}
        valid == {f \in before : FieldIsValid(conf, f)}
    IN  [f \in valid |-> conf[f]]

\* @validator('confirmation_text'): TRUE when v is returned, FALSE when
\* ValueError is raised
validate_confirmation_text(v, values) ==
    IF "confirmation_level" \in DOMAIN values
    THEN v = required_texts(values["confirmation_level"])
    ELSE TRUE

\* DeletionConfirmation(**conf) is constructed without ValidationError
DeletionConfirmationValid(conf) ==
    /\ \A i \in 1 .. Len(DeletionConfirmationFields) :
           FieldIsValid(conf, DeletionConfirmationFields[i])
    /\ validate_confirmation_text(conf.confirmation_text, ValuesAt(conf, 1))

expected_levels == <<"level_1", "level_2", "level_3", "level_4">>

\* @validator('confirmations')
validate_all_levels(v) ==
    LET actual_levels == [i \in 1 .. Len(v) |-> v[i].confirmation_level]
    IN  /\ {actual_levels[i] : i \in 1 .. Len(v)}
               = {expected_levels[i] : i \in 1 .. Len(expected_levels)}
        /\ actual_levels = expected_levels

\* DataDeletionRequest(confirmations=...) is constructed without ValidationError
DataDeletionRequestValid(confirmations) ==
    /\ Len(confirmations) >= MIN_CONFIRMATIONS
    /\ Len(confirmations) <= MAX_CONFIRMATIONS
    /\ \A i \in 1 .. Len(confirmations) : DeletionConfirmationValid(confirmations[i])
    /\ validate_all_levels(confirmations)

\* request bodies: the four confirmations as required, and the same with one
\* text replaced by the text of another level, one level replaced, two
\* neighbours exchanged, the last one missing, one repeated, consequences not
\* understood
Confirmation(level, text) ==
    [confirmation_text |-> text, confirmation_level |-> level,
     user_understands_consequences |-> TRUE]

NextLevel(level) ==
    CASE level = "level_1" -> "level_2"
      [] level = "level_2" -> "level_3"
      [] level = "level_3" -> "level_4"
      [] level = "level_4" -> "level_1"

RequiredConfirmations ==
    [i \in 1 .. 4 |-> Confirmation(expected_levels[i], required_texts(expected_levels[i]))]

ConfirmationLists ==
    {RequiredConfirmations}
    \cup {[RequiredConfirmations EXCEPT ![i].confirmation_text =
               required_texts(NextLevel(expected_levels[i]))] : i \in 1 .. 4}
    \cup {[RequiredConfirmations EXCEPT ![i] = RequiredConfirmations[1]] : i \in 2 .. 4}
    \cup {[RequiredConfirmations EXCEPT ![i] = RequiredConfirmations[i + 1],
                                        ![i + 1] = RequiredConfirmations[i]] : i \in 1 .. 3}
    \cup {SubSeq(RequiredConfirmations, 1, 3),
          RequiredConfirmations \o <<RequiredConfirmations[4]>>,
          [RequiredConfirmations EXCEPT ![4].user_understands_consequences = FALSE],
          [RequiredConfirmations EXCEPT ![2].confirmation_level = "level_5"]}

\* get_active_deletion_task(db, user_id)
get_active_deletion_task(user_id) == None

\* get_deletion_task_by_id(db, task_id, user_id)
get_deletion_task_by_id(task_id, user_id) ==
    Some([task_id |-> task_id, status |-> "in_progress", user_id |-> user_id])

\* update_deletion_task_status(db, task_id, status): the status handed to the
\* database for the task
update_deletion_task_status(T, task_id, status) ==
    IF task_id \in 1 .. Len(T) THEN [T EXCEPT ![task_id].status = status] ELSE T

RequestReply(user_id, confirmations, status_code, created) ==
    Some([handler |-> "request_data_deletion", user_id |-> user_id,
          confirmations |-> confirmations, status_code |-> status_code,
          saved |-> created, scheduled |-> created, updated |-> FALSE])

\* POST /request-deletion.  A body that does not validate is answered 422 by
\* the framework and the handler is not entered.
request_data_deletion(user_id, confirmations) ==
    IF ~DataDeletionRequestValid(confirmations)
    THEN /\ reply' = RequestReply(user_id, confirmations, HTTP_422_UNPROCESSABLE_ENTITY, FALSE)
         /\ UNCHANGED <<tasks, jobs>>
    ELSE IF get_active_deletion_task(user_id) # None
    THEN /\ reply' = RequestReply(user_id, confirmations, HTTP_409_CONFLICT, FALSE)
         /\ UNCHANGED <<tasks, jobs>>
    ELSE /\ Len(tasks) < MaxTasks
         /\ tasks' = Append(tasks, [task_id |-> Len(tasks) + 1, status |-> "requested",
                                    user_id |-> user_id])
         /\ jobs' = Append(jobs, [pc |-> "scheduled", step |-> 0])
         /\ reply' = RequestReply(user_id, confirmations, HTTP_200_OK, TRUE)

RequestDeletion(user_id, confirmations) ==
    /\ request_data_deletion(user_id, confirmations)
    /\ UNCHANGED <<limiterVars, resolved, transfers>>

CancelReply(user_id, task_id, status_code, updated) ==
    Some([handler |-> "cancel_deletion", user_id |-> user_id, task_id |-> task_id,
          status_code |-> status_code, saved |-> FALSE, scheduled |-> FALSE,
          updated |-> updated])

\* DELETE /cancel-deletion/{task_id}
cancel_deletion(user_id, task_id) ==
    LET deletion_task == get_deletion_task_by_id(task_id, user_id)
    IN  IF deletion_task = None
        THEN /\ reply' = CancelReply(user_id, task_id, HTTP_404_NOT_FOUND, FALSE)
             /\ UNCHANGED <<tasks, jobs>>
        ELSE IF deletion_task[1].status # "requested"
        THEN /\ reply' = CancelReply(user_id, task_id, HTTP_400_BAD_REQUEST, FALSE)
             /\ UNCHANGED <<tasks, jobs>>
        ELSE /\ tasks' = update_deletion_task_status(tasks, task_id, "cancelled")
             /\ reply' = CancelReply(user_id, task_id, HTTP_200_OK, TRUE)
             /\ UNCHANGED jobs

\* the task ids a client may name: those created and one never created
TaskIds == 1 .. MaxTasks + 1

CancelDeletion(user_id, task_id) ==
    /\ cancel_deletion(user_id, task_id)
    /\ UNCHANGED <<limiterVars, resolved, transfers>>

\* execute_user_data_deletion: the job starts and writes IN_PROGRESS
JobStart(task_id) ==
    /\ task_id \in 1 .. Len(jobs)
    /\ jobs[task_id].pc = "scheduled"
    /\ tasks' = update_deletion_task_status(tasks, task_id, "in_progress")
    /\ jobs' = [jobs EXCEPT ![task_id].pc = "running"]
    /\ reply' = None
    /\ UNCHANGED <<limiterVars, resolved, transfers>>

\* one pass of the loop over deletion_steps
JobStep(task_id) ==
    /\ task_id \in 1 .. Len(jobs)
    /\ jobs[task_id].pc = "running"
    /\ jobs[task_id].step < NUM_DELETION_STEPS
    /\ jobs' = [jobs EXCEPT ![task_id].step = @ + 1]
    /\ reply' = None
    /\ UNCHANGED <<limiterVars, resolved, transfers, tasks>>

\* after the loop the job writes COMPLETED and log_user_data_deletion prints
\* the audit line; the print returns or raises (an OSError of the standard
\* output), and when it raises the except branch writes FAILED over COMPLETED
JobComplete(task_id, audit_log) ==
    LET completed == update_deletion_task_status(tasks, task_id, "completed")
    IN  /\ task_id \in 1 .. Len(jobs)
        /\ jobs[task_id].pc = "running"
        /\ jobs[task_id].step = NUM_DELETION_STEPS
        /\ tasks' = IF audit_log = "raised"
                     THEN update_deletion_task_status(completed, task_id, "failed")
                     ELSE completed
        /\ jobs' = [jobs EXCEPT ![task_id].pc =
                                    IF audit_log = "raised" THEN "failed" ELSE "done"]
        /\ reply' = None
        /\ UNCHANGED <<limiterVars, resolved, transfers>>

NextDanger ==
    \/ \E user_id \in Users, confirmations \in ConfirmationLists :
           RequestDeletion(user_id, confirmations)
    \/ \E user_id \in Users, task_id \in TaskIds : CancelDeletion(user_id, task_id)
    \/ \E task_id \in 1 .. MaxTasks : JobStart(task_id)
    \/ \E task_id \in 1 .. MaxTasks : JobStep(task_id)
    \/ \E task_id \in 1 .. MaxTasks, audit_log \in {"printed", "raised"} :
           JobComplete(task_id, audit_log)

SpecDanger == InitDefault /\ [][NextDanger]_vars

----------------------------------------------------------------------------
(* routers/transfers.py: create_transfer, create_bulk_transfers,            *)
(* update_transfer, cancel_transfer and execute_transfer_manually, with the *)
(* database helpers of the source: transfers records, per transfer id, what *)
(* the handlers hand the helpers that write (save_transfer,                 *)
(* update_transfer_status, update_transfer_in_db, setup_recurring_transfer, *)
(* cancel_recurring_transfer), the values last written; get_transfer_by_id  *)
(* returns the constant transfer it returns in the source, for every id,    *)
(* also one that no create saved.  TransferResponse declares fields with no *)
(* default (from_account_name, to_account_name, processed_date,             *)
(* next_execution, transaction_id) that neither the saved nor the updated   *)
(* transfer carries: building it raises a ValidationError, after the        *)
(* helpers were called.                                                     *)

MOCK_TRANSFER_AMOUNT == 500
UPDATED_AMOUNT == 250      \* an amount a client sends in an update
HTTP_201_CREATED == 201
MAX_BULK_TRANSFERS == 50

TransferStatus ==
    {"pending", "processing", "completed", "failed", "cancelled", "scheduled"}

\* TransferResponse(**transfer) raises when the transfer lacks a field that
\* TransferResponse declares with no default; fields are those of transfer
TransferResponseRaises(fields) ==
    {"id", "amount", "status", "is_recurring", "from_account_name", "to_account_name",
     "processed_date", "next_execution", "transaction_id"} \ fields # {}

\* get_transfer_by_id(db, transfer_id, user_id)
get_transfer_by_id(transfer_id) ==
    Some([id |-> transfer_id, amount |-> MOCK_TRANSFER_AMOUNT, status |-> "pending",
          is_recurring |-> FALSE])

\* save_transfer(db, transfer_data)
save_transfer(T, transfer_data) ==
    [T EXCEPT ![transfer_data.id] =
        [saved |-> TRUE, amount |-> Some(transfer_data.amount),
         status |-> Some(transfer_data.status),
         is_recurring |-> Some(transfer_data.is_recurring), schedule |-> FALSE]]

\* update_transfer_status(db, transfer_id, status)
update_transfer_status(T, transfer_id, status) ==
    [T EXCEPT ![transfer_id].status = Some(status)]

\* process_transfer(db, transfer_id)
process_transfer(T, transfer_id) == update_transfer_status(T, transfer_id, "completed")

\* setup_recurring_transfer / cancel_recurring_transfer
set_recurring_schedule(T, transfer_id, active) ==
    [T EXCEPT ![transfer_id].schedule = active]

\* update_transfer_in_db(db, transfer_id, update_data): the fields of
\* update_data, those of the body that are not None
update_transfer_in_db(T, transfer_id, update_data) ==
    [T EXCEPT ![transfer_id].amount =
                  IF update_data.amount # None THEN update_data.amount ELSE @,
              ![transfer_id].status =
                  IF update_data.status # None THEN update_data.status ELSE @]

TransferReply(handler, transfer_id, status_code, written) ==
    Some([handler |-> handler, transfer_id |-> transfer_id,
          status_code |-> status_code, updated |-> written])

\* POST /: the id generate_id returns, one no transfer was saved under,
\* scheduled_date given or not, is_recurring
create_transfer(id, has_scheduled_date, is_recurring) ==
    LET transfer_data ==
            [id |-> id, amount |-> MOCK_TRANSFER_AMOUNT,
             status |-> IF has_scheduled_date THEN "scheduled" ELSE "pending",
             is_recurring |-> is_recurring]
        saved == save_transfer(transfers, transfer_data)
        processed == IF ~has_scheduled_date THEN process_transfer(saved, id) ELSE saved
        recurring == IF is_recurring THEN set_recurring_schedule(processed, id, TRUE)
                     ELSE processed
    IN  /\ ~transfers[id].saved
        /\ transfers' = recurring
        /\ reply' = TransferReply("create_transfer", id,
                                  IF TransferResponseRaises(DOMAIN transfer_data)
                                  THEN HTTP_500_INTERNAL_SERVER_ERROR
                                  ELSE HTTP_201_CREATED, TRUE)
        /\ UNCHANGED <<limiterVars, resolved, tasks, jobs>>

\* POST /bulk: the ids generate_id returns for the transfers of the batch;
\* the loop hands each transfer to save_transfer with status PENDING, and
\* the TransferResponse built for it raises inside the try, so that it is
\* counted as an error
create_bulk_transfers(ids, is_recurring) ==
    LET n == Cardinality(ids)
        transfer_data(id) ==
            [id |-> id, amount |-> MOCK_TRANSFER_AMOUNT, status |-> "pending",
             is_recurring |-> is_recurring]
        errors == Cardinality({id \in ids :
                                  TransferResponseRaises(DOMAIN transfer_data(id))})
    IN  /\ \A id \in ids : ~transfers[id].saved
        /\ IF n > MAX_BULK_TRANSFERS
           THEN /\ reply' = Some([handler |-> "create_bulk_transfers",
                                  status_code |-> HTTP_400_BAD_REQUEST,
                                  status |-> "error", created |-> 0, errors |-> 0])
                /\ UNCHANGED transfers
           ELSE /\ transfers' =
                       [id \in TransferIds |->
                           IF id \in ids
                           THEN save_transfer(transfers, transfer_data(id))[id]
                           ELSE transfers[id]]
                /\ reply' = Some([handler |-> "create_bulk_transfers",
                                  status_code |-> HTTP_200_OK,
                                  status |-> IF errors = 0 THEN "success" ELSE "partial",
                                  created |-> n - errors, errors |-> errors])
        /\ UNCHANGED <<limiterVars, resolved, tasks, jobs>>

\* bodies of TransferUpdate: an amount, a status, or neither
UpdateBodies ==
    {[amount |-> Some(UPDATED_AMOUNT), status |-> None], [amount |-> None, status |-> None]}
    \cup {[amount |-> None, status |-> Some(s)] : s \in TransferStatus}

\* PUT /{transfer_id}
update_transfer(transfer_id, transfer_update) ==
    LET existing_transfer == get_transfer_by_id(transfer_id)
    IN  /\ IF existing_transfer = None
           THEN /\ reply' = TransferReply("update_transfer", transfer_id,
                                          HTTP_404_NOT_FOUND, FALSE)
                /\ UNCHANGED transfers
           ELSE IF existing_transfer[1].status \in {"completed", "processing"}
           THEN /\ reply' = TransferReply("update_transfer", transfer_id,
                                          HTTP_400_BAD_REQUEST, FALSE)
                /\ UNCHANGED transfers
           ELSE /\ transfers' = update_transfer_in_db(transfers, transfer_id,
                                                      transfer_update)
                /\ reply' = TransferReply("update_transfer", transfer_id,
                                          IF TransferResponseRaises(
                                                 DOMAIN existing_transfer[1])
                                          THEN HTTP_500_INTERNAL_SERVER_ERROR
                                          ELSE HTTP_200_OK, TRUE)
        /\ UNCHANGED <<limiterVars, resolved, tasks, jobs>>

\* DELETE /{transfer_id}
cancel_transfer(transfer_id) ==
    LET transfer == get_transfer_by_id(transfer_id)
    IN  /\ IF transfer = None
           THEN /\ reply' = TransferReply("cancel_transfer", transfer_id,
                                          HTTP_404_NOT_FOUND, FALSE)
                /\ UNCHANGED transfers
           ELSE IF transfer[1].status \notin {"pending", "scheduled"}
           THEN /\ reply' = TransferReply("cancel_transfer", transfer_id,
                                          HTTP_400_BAD_REQUEST, FALSE)
                /\ UNCHANGED transfers
           ELSE LET cancelled == update_transfer_status(transfers, transfer_id, "cancelled")
                IN  /\ transfers' = IF transfer[1].is_recurring
                                    THEN set_recurring_schedule(cancelled, transfer_id, FALSE)
                                    ELSE cancelled
                    /\ reply' = TransferReply("cancel_transfer", transfer_id,
                                              HTTP_200_OK, TRUE)
        /\ UNCHANGED <<limiterVars, resolved, tasks, jobs>>

\* POST /{transfer_id}/execute
execute_transfer_manually(transfer_id) ==
    LET transfer == get_transfer_by_id(transfer_id)
    IN  /\ IF transfer = None
           THEN /\ reply' = TransferReply("execute_transfer_manually", transfer_id,
                                          HTTP_404_NOT_FOUND, FALSE)
                /\ UNCHANGED transfers
           ELSE IF transfer[1].status \notin {"pending", "scheduled"}
           THEN /\ reply' = TransferReply("execute_transfer_manually", transfer_id,
                                          HTTP_400_BAD_REQUEST, FALSE)
                /\ UNCHANGED transfers
           ELSE /\ transfers' = process_transfer(transfers, transfer_id)
                /\ reply' = TransferReply("execute_transfer_manually", transfer_id,
                                          HTTP_200_OK, TRUE)
        /\ UNCHANGED <<limiterVars, resolved, tasks, jobs>>

NextTransfers ==
    \/ \E id \in TransferIds, has_scheduled_date \in BOOLEAN, is_recurring \in BOOLEAN :
           create_transfer(id, has_scheduled_date, is_recurring)
    \/ \E ids \in SUBSET TransferIds, is_recurring \in BOOLEAN :
           create_bulk_transfers(ids, is_recurring)
    \/ \E transfer_id \in TransferIds, transfer_update \in UpdateBodies :
           update_transfer(transfer_id, transfer_update)
    \/ \E transfer_id \in TransferIds : cancel_transfer(transfer_id)
    \/ \E transfer_id \in TransferIds : execute_transfer_manually(transfer_id)

SpecTransfers == InitDefault /\ [][NextTransfers]_vars

----------------------------------------------------------------------------
(* Vocabulary of the properties *)

RATE_LIMIT_REQUESTS == settings.RATE_LIMIT_REQUESTS
RATE_LIMIT_PERIOD == settings.RATE_LIMIT_PERIOD

Healthy == faults = 0

IsCheck(call) == call.kind \in {"admitted", "rejected"}

\* the calls of client c admitted at a time in [s, s + RATE_LIMIT_PERIOD)
AdmittedIn(c, s) ==
    {i \in 1 .. Len(admits[c]) :
        /\ s <= admits[c][i].time
        /\ admits[c][i].time < s + RATE_LIMIT_PERIOD}

\* the admissions of client c that precede the call recorded in `last`
EarlierAdmits(c) ==
    LET n == IF last.kind = "admitted" /\ last.client = Some(c)
             THEN Len(admits[c]) - 1 ELSE Len(admits[c])
    IN  1 .. n

Entry(t) == [member |-> Str(t), score |-> t]

\* the process p issues the store command op in this step and it is served
Issues(p, op) == procs[p].pc = op /\ procs'[p] # procs[p] /\ faults' = faults

\* the key and the clock reading of the check that p runs
KeyOf(p) == RedisKey(procs[p].client[1])
TimeOf(p) == procs[p].current_time

\* the count that the zcard step of p has read
CountRead(p) == IF procs'[p].pc = "idle" THEN last'.count ELSE procs'[p].request_count

Min(set) == CHOOSE x \in set : \A y \in set : x <= y
Max(set) == CHOOSE x \in set : \A y \in set : x >= y

----------------------------------------------------------------------------
(* C1: against a healthy store and with checks run one at a time, the calls *)
(* of one client admitted inside any one window of RATE_LIMIT_PERIOD        *)
(* seconds never number more than RATE_LIMIT_REQUESTS, repeated seconds     *)
(* included.  Violated: two calls in the same second leave one element.     *)
C1_AdmissionsWithinLimit ==
    Healthy =>
        \A c \in ClientIds, s \in 0 .. MaxTime + 1 :
            Cardinality(AdmittedIn(c, s)) <= RATE_LIMIT_REQUESTS

(* C2: a check in which a store operation raised returns true: the request  *)
(* is forwarded to the application as an admitted call, with no rejection   *)
(* response and no failure.  Violated: the except branch prints before it   *)
(* returns, and when the print raises the check raises: the request is not  *)
(* forwarded and the client is answered 500.                                *)
C2_FailOpen ==
    last.error # NoFault =>
        /\ last.kind = "admitted"
        /\ last.forwarded
        /\ last.response = None

(* Companion of C2: a check in which a store operation raised and the print *)
(* of the except branch returned ends admitted and forwarded, with no       *)
(* response of the gate; no check in which an operation raised is rejected. *)
L2_FailOpenWhenPrinted ==
    last.error # NoFault =>
        /\ last.kind # "rejected"
        /\ last.kind # "failed" =>
               /\ last.kind = "admitted"
               /\ last.forwarded
               /\ last.response = None

L2_Witness ==
    /\ last.error = 4
    /\ last.kind = "admitted"
    /\ last.count = RATE_LIMIT_REQUESTS - 1

(* C3: a request for /health, /docs, /redoc or /openapi.json is forwarded   *)
(* with no client key computed and no store operation issued, and leaves    *)
(* the store as it was, whatever the store holds.                           *)
C3_ExemptBypass ==
    [][(last' # NoCall /\ last'.path \in {"/health", "/docs", "/redoc", "/openapi.json"})
        => /\ last'.forwarded
           /\ last'.response = None
           /\ last'.client = None
           /\ last'.ops = <<>>
           /\ UNCHANGED <<zsets, expiry>>]_vars

\* an exempt request while its sender's window is full and a store operation has raised
C3_Witness ==
    /\ last.kind = "exempt"
    /\ last.path = "/docs"
    /\ faults > 0
    /\ \E k \in Keys : Cardinality(zsets[k]) >= RATE_LIMIT_REQUESTS

(* C4: a rejected call is not forwarded; the answer has status 429 and a    *)
(* payload with error "Rate limit exceeded", a message naming the limit and *)
(* the period, and retry_after equal to the period.                         *)
C4_Rejection ==
    last.kind = "rejected" =>
        /\ ~last.forwarded
        /\ last.response # None
        /\ LET r == last.response[1]
           IN  /\ r.status = 429
               /\ r.content.error = "Rate limit exceeded"
               /\ r.content.message[2] = Str(RATE_LIMIT_REQUESTS)
               /\ r.content.message[4] = Str(RATE_LIMIT_PERIOD)
               /\ r.content.retry_after = RATE_LIMIT_PERIOD

C4_Witness ==
    /\ last.kind = "rejected"
    /\ last.count >= RATE_LIMIT_REQUESTS
    /\ RATE_LIMIT_REQUESTS # RATE_LIMIT_PERIOD

(* C5: a check for one client leaves the sorted set and the time-to-live of *)
(* every other client as they were, and its decision is the same whatever   *)
(* is stored for the other clients.                                         *)
OtherContents == {{}, {Entry(0)}, {Entry(now)}, {Entry(t) : t \in 0 .. now}}

StoreWith(k, zset) ==
    [z |-> [zsets EXCEPT ![k] = zset],
     e |-> [expiry EXCEPT ![k] = IF zset = {} THEN NoTTL ELSE now + 1]]

C5_KeysIndependent ==
    [][\A p \in Procs :
          (procs[p].pc # "idle" /\ procs'[p] # procs[p]) =>
              LET c1 == procs[p].client[1]
              IN  \A c2 \in ClientIds \ {c1} :
                      /\ zsets'[RedisKey(c2)] = zsets[RedisKey(c2)]
                      /\ expiry'[RedisKey(c2)] = expiry[RedisKey(c2)]
                      /\ (procs[p].pc = "zcard" /\ faults' = faults) =>
                             \A other \in OtherContents :
                                 Rejects(settings, c1,
                                         Count(StoreWith(RedisKey(c2), other), c1))
                                     = (last'.kind = "rejected")]_vars

\* a check of one client while both clients hold timestamps
C5_Witness ==
    /\ IsCheck(last)
    /\ \E c2 \in ClientIds \ {last.client[1]} : zsets[RedisKey(c2)] # {}
    /\ zsets[RedisKey(last.client[1])] # {}

(* C6: an admission recorded for a client at time t is stored and counted   *)
(* by every check of that client made at a time now < t + RATE_LIMIT_PERIOD *)
(* (now is the clock reading of the check), and removed by the prune step   *)
(* of every check made at a time now >= t + RATE_LIMIT_PERIOD.  Violated:   *)
(* the key goes with a time-to-live that EXPIRE did not renew, because      *)
(* EXPIRE raised or because the time-to-live elapsed between ZADD and       *)
(* EXPIRE, and the timestamp just added goes with it.                       *)
RecordedAt(c) == {admits[c][i].time : i \in {j \in 1 .. Len(admits[c]) : admits[c][j].recorded}}

C6_WindowBoundary ==
    [][\A p \in Procs :
          /\ Issues(p, "zcard") =>
                 \A s \in RecordedAt(procs[p].client[1]) :
                     TimeOf(p) < s + RATE_LIMIT_PERIOD => Entry(s) \in zsets[KeyOf(p)]
          /\ Issues(p, "zremrangebyscore") =>
                 \A s \in RecordedAt(procs[p].client[1]) :
                     TimeOf(p) >= s + RATE_LIMIT_PERIOD => Entry(s) \notin zsets'[KeyOf(p)]]_vars

(* C7: with a healthy store, once RATE_LIMIT_REQUESTS calls of a client     *)
(* have been admitted at distinct times t1 < ... < tm inside one window,    *)
(* the next call of the client is rejected when now < t1 + RATE_LIMIT_PERIOD *)
(* and admitted when now >= t1 + RATE_LIMIT_PERIOD.  Violated: the four     *)
(* store commands of a check are separate round-trips.  A check that read   *)
(* its clock in one second and reaches the store after the key's            *)
(* time-to-live elapsed counts nothing and is admitted inside the window;   *)
(* and ZADD on a key whose time-to-live elapses before EXPIRE loses the     *)
(* timestamp it has just recorded, so a later call finds room.              *)
\* the times of the latest RATE_LIMIT_REQUESTS admissions that precede the call
LatestAdmits(c) ==
    LET mine == EarlierAdmits(c)
    IN  {i \in mine : Cardinality({j \in mine : j >= i}) <= RATE_LIMIT_REQUESTS}

WindowFull(c) ==
    LET times == {admits[c][i].time : i \in LatestAdmits(c)}
    IN  /\ Cardinality(LatestAdmits(c)) = RATE_LIMIT_REQUESTS
        /\ Cardinality(times) = RATE_LIMIT_REQUESTS
        /\ Max(times) < Min(times) + RATE_LIMIT_PERIOD

FirstOfWindow(c) == Min({admits[c][i].time : i \in LatestAdmits(c)})

C7_FullWindow ==
    (IsCheck(last) /\ Healthy /\ WindowFull(last.client[1])) =>
        IF last.time < FirstOfWindow(last.client[1]) + RATE_LIMIT_PERIOD
        THEN last.kind = "rejected"
        ELSE last.kind = "admitted"

(* C8: the gate applies two limits: a client with a bearer credential is    *)
(* admitted at most 100 times per minute, a client without one at most 20   *)
(* times per minute.  Violated: check_rate_limit compares the count of      *)
(* every client with the one RATE_LIMIT_REQUESTS.                           *)
AdmittedPerMinute(c) ==
    {i \in 1 .. Len(admits[c]) : admits[c][i].time > now - DOC_LIMIT_WINDOW}

C8_TwoLimits ==
    \A c \in ClientIds :
        /\ c.class = "user:" => Cardinality(AdmittedPerMinute(c)) <= DOC_LIMIT_AUTHENTICATED
        /\ c.class = "ip:" => Cardinality(AdmittedPerMinute(c)) <= DOC_LIMIT_UNAUTHENTICATED

(* C9: every rejection is a 429 response that carries a Retry-After header  *)
(* whose value is the period.  Violated: the response has the two headers   *)
(* JSONResponse sets itself; the hint is the retry_after field of the body. *)
C9_RetryAfterHeader ==
    last.kind = "rejected" =>
        /\ last.response # None
        /\ last.response[1].status = 429
        /\ \E i \in DOMAIN last.response[1].headers :
               /\ last.response[1].headers[i].name = "retry-after"
               /\ last.response[1].headers[i].value = Str(RATE_LIMIT_PERIOD)

(* C10: when the store operations of the checks of NumProcs processes       *)
(* interleave, the calls of one client admitted inside one window number at *)
(* most RATE_LIMIT_REQUESTS + NumProcs - 1.  Violated: calls of the same    *)
(* second share one element, so the count the checks read stays below the   *)
(* limit (C1).                                                              *)
C10_BoundedOvershoot ==
    \A c \in ClientIds, s \in 0 .. MaxTime + 1 :
        Cardinality(AdmittedIn(c, s)) <= RATE_LIMIT_REQUESTS + NumProcs - 1

(* Companion of C10: the elements stored for a client never number more     *)
(* than RATE_LIMIT_REQUESTS + NumProcs - 1.                                 *)
L10_StoredBounded ==
    \A k \in Keys : Cardinality(zsets[k]) <= RATE_LIMIT_REQUESTS + NumProcs - 1

L10_Witness ==
    \E k \in Keys : Cardinality(zsets[k]) = RATE_LIMIT_REQUESTS + NumProcs - 1

(* C11: every gate invocation that has started its check eventually yields  *)
(* its decision (the process is idle again), also when the store never      *)
(* answers a command.  Violated: no timeout bounds the store round-trip, a  *)
(* process whose command gets no reply waits in it for ever.                *)
C11_EveryCallDecided ==
    \A p \in Procs : (procs[p].pc # "idle") ~> (procs[p].pc = "idle")

----------------------------------------------------------------------------
(* Identity resolver *)

\* the request carries a bearer credential: an Authorization header that
\* begins with "Bearer "
BearerCredentials == {"Bearer abc", "Bearer xyz", "Bearer "}
HasBearer(request) ==
    request.authorization # None /\ request.authorization[1] \in BearerCredentials

(* C12: get_client_id is a function of the request that writes nothing: two *)
(* successive applications to requests with a bearer credential return a    *)
(* user: key each, the same key when the credential is the same, whatever   *)
(* the peer and forwarded-for addresses, and two different keys when the    *)
(* credentials differ; no application changes the store or the settings.    *)
C12_CredentialDeterminesKey ==
    [][(resolved # None /\ resolved' # None) =>
        LET a == resolved[1]
            b == resolved'[1]
        IN  /\ UNCHANGED limiterVars
            /\ b.client_id = get_client_id(b.request)
            /\ (HasBearer(a.request) /\ HasBearer(b.request)) =>
                   /\ a.client_id.class = "user:"
                   /\ b.client_id.class = "user:"
                   /\ (a.request.authorization = b.request.authorization)
                          <=> (a.client_id = b.client_id)]_vars

\* the credential "Bearer abc" resolved behind a proxy, from another peer
C12_Witness ==
    /\ resolved # None
    /\ resolved[1].request.authorization = Some("Bearer abc")
    /\ resolved[1].request.forwarded_for = Some("203.0.113.5, 10.0.0.1")
    /\ resolved[1].request.client = Some("10.0.0.2")
    /\ resolved[1].client_id = [class |-> "user:", id |-> "c355dce96c161288"]

\* the whitespace-trimmed first comma-separated token of the forwarded-for
\* values the model uses, written out
TrimmedFirstToken(header) ==
    CASE header = "" -> ""
      [] header = "203.0.113.5" -> "203.0.113.5"
      [] header = "203.0.113.5, 10.0.0.1" -> "203.0.113.5"
      [] header = " 203.0.113.5 ,10.0.0.1" -> "203.0.113.5"
      [] header = "," -> ""
      [] header = "\f203.0.113.5\t" -> "203.0.113.5"

PeerOrUnknown(request) ==
    IF request.client # None THEN request.client[1] ELSE "unknown"

(* C13 as stated: for every request without a bearer credential the key is  *)
(* ip: followed by the trimmed first token of the forwarded-for header when *)
(* the header is present, else the peer address, else "unknown".  Violated: *)
(* a forwarded-for header that is present and empty is passed over.         *)
C13_ForwardedWhenPresent ==
    (resolved # None /\ ~HasBearer(resolved[1].request)) =>
        LET request == resolved[1].request
        IN  resolved[1].client_id =
                [class |-> "ip:",
                 id |-> IF request.forwarded_for # None
                        THEN TrimmedFirstToken(request.forwarded_for[1])
                        ELSE PeerOrUnknown(request)]

(* C13 amended: for every request without a bearer credential the key is    *)
(* ip: followed by the trimmed first token of the forwarded-for header when *)
(* the header is present and not the empty string (whatever the peer        *)
(* address), else the peer address, else "unknown"; a key is always         *)
(* returned.                                                                *)
C13_ForwardedWhenNotEmpty ==
    (resolved # None /\ ~HasBearer(resolved[1].request)) =>
        LET request == resolved[1].request
        IN  resolved[1].client_id =
                [class |-> "ip:",
                 id |-> IF request.forwarded_for \notin {None, Some("")}
                        THEN TrimmedFirstToken(request.forwarded_for[1])
                        ELSE PeerOrUnknown(request)]

\* the scenario of the specification, from a peer, without a credential
C13_Witness ==
    /\ resolved # None
    /\ resolved[1].request.authorization = None
    /\ resolved[1].request.client = Some("10.0.0.1")
    /\ resolved[1].request.forwarded_for = Some("203.0.113.5, 10.0.0.1")
    /\ resolved[1].client_id = [class |-> "ip:", id |-> "203.0.113.5"]

----------------------------------------------------------------------------
(* Time-to-live *)

\* no check is under way
AllIdle == \A p \in Procs : procs[p].pc = "idle"

\* every key that holds a timestamp carries the time-to-live set at the most
\* recent admission of its client: it elapses RATE_LIMIT_PERIOD after it
TimeToLiveOfLastAdmission ==
    \A c \in ClientIds :
        zsets[RedisKey(c)] # {} =>
            /\ admits[c] # <<>>
            /\ expiry[RedisKey(c)] =
                   admits[c][Len(admits[c])].decided + RATE_LIMIT_PERIOD

(* C14: in every reachable state in which no check is under way, also after *)
(* a store operation raised part-way through a check, every key that holds  *)
(* at least one timestamp carries a time-to-live of RATE_LIMIT_PERIOD set   *)
(* at its most recent admission.  Violated: when ZADD succeeds and EXPIRE   *)
(* raises the key holds the new timestamp with no time-to-live, or with the *)
(* one set earlier.                                                         *)
C14_StoredKeysCarryTimeToLive == AllIdle => TimeToLiveOfLastAdmission

(* Companion of C14: the same statement for a store none of whose           *)
(* operations has raised.                                                   *)
L14_TimeToLiveHealthy == (Healthy /\ AllIdle) => TimeToLiveOfLastAdmission

L14_Witness ==
    /\ Healthy
    /\ AllIdle
    /\ \E k \in Keys : Cardinality(zsets[k]) >= 2 /\ expiry[k] = now + RATE_LIMIT_PERIOD

----------------------------------------------------------------------------
(* Danger zone *)

IsRequestReply == reply # None /\ reply[1].handler = "request_data_deletion"
IsCancelReply == reply # None /\ reply[1].handler = "cancel_deletion"

\* exactly four confirmations, level_1 to level_4 in this order, each with
\* the text required for its level
WellConfirmed(confirmations) ==
    /\ Len(confirmations) = 4
    /\ \A i \in 1 .. 4 :
           /\ confirmations[i].confirmation_level = expected_levels[i]
           /\ confirmations[i].confirmation_text = required_texts(expected_levels[i])

LevelsInOrder(confirmations) ==
    /\ Len(confirmations) = 4
    /\ \A i \in 1 .. 4 : confirmations[i].confirmation_level = expected_levels[i]

(* C15: request_data_deletion saves a task and schedules the background     *)
(* deletion only for a request with exactly four confirmations, level_1 to  *)
(* level_4 in this order, each with the exact text of its level; every      *)
(* other request is rejected with nothing saved and nothing scheduled.      *)
(* Violated: the validator of confirmation_text runs before                 *)
(* confirmation_level is validated and never compares the text.             *)
C15_ExactConfirmationsRequired ==
    IsRequestReply =>
        IF WellConfirmed(reply[1].confirmations)
        THEN TRUE
        ELSE /\ reply[1].status_code # HTTP_200_OK
             /\ ~reply[1].saved
             /\ ~reply[1].scheduled

(* Companion of C15: the number and the order of the levels are enforced.   *)
L15_LevelsRequired ==
    IsRequestReply =>
        IF LevelsInOrder(reply[1].confirmations)
        THEN reply[1].status_code = HTTP_200_OK /\ reply[1].saved /\ reply[1].scheduled
        ELSE /\ reply[1].status_code = HTTP_422_UNPROCESSABLE_ENTITY
             /\ ~reply[1].saved
             /\ ~reply[1].scheduled

L15_Witness ==
    /\ IsRequestReply
    /\ reply[1].status_code = HTTP_422_UNPROCESSABLE_ENTITY
    /\ Len(reply[1].confirmations) = 4
    /\ Len(tasks) = 1

\* the task named is one that request_data_deletion created for the user
KnownTask(user_id, task_id) ==
    /\ task_id \in 1 .. Len(tasks)
    /\ tasks[task_id].user_id = user_id

(* C16: cancel_deletion writes CANCELLED only for a task whose status is    *)
(* REQUESTED; for a task in any other status it answers 400 and writes      *)
(* nothing; for a task that does not exist for the user it answers 404 and  *)
(* writes nothing.  Violated: get_deletion_task_by_id returns a task in     *)
(* progress for every id, so an unknown task is answered 400.               *)
C16_CancelOnlyRequested ==
    [][(reply' # None /\ reply'[1].handler = "cancel_deletion") =>
        LET call == reply'[1]
        IN  IF ~KnownTask(call.user_id, call.task_id)
            THEN /\ call.status_code = HTTP_404_NOT_FOUND
                 /\ ~call.updated
                 /\ tasks' = tasks
            ELSE IF tasks[call.task_id].status = "requested"
            THEN call.updated => tasks'[call.task_id].status = "cancelled"
            ELSE /\ call.status_code = HTTP_400_BAD_REQUEST
                 /\ ~call.updated
                 /\ tasks' = tasks]_vars

(* Companion of C16: as the code stands no call of cancel_deletion writes   *)
(* a status; every call is answered 400, also for a task just requested.    *)
L16_CancelAlwaysRefused ==
    IsCancelReply => (reply[1].status_code = HTTP_400_BAD_REQUEST /\ ~reply[1].updated)

L16_Witness ==
    /\ IsCancelReply
    /\ KnownTask(reply[1].user_id, reply[1].task_id)
    /\ tasks[reply[1].task_id].status = "requested"

\* the tasks of the user that are requested or in progress
ActiveTasks(user_id) ==
    {i \in 1 .. Len(tasks) :
        /\ tasks[i].user_id = user_id
        /\ tasks[i].status \in {"requested", "in_progress"}}

(* C17: at any time at most one deletion task of a user is active           *)
(* (REQUESTED or IN_PROGRESS).  Violated: get_active_deletion_task returns  *)
(* None whatever the user's tasks, so a second request of the same user is  *)
(* accepted, saved and scheduled while the first is active.                 *)
C17_OneActiveTaskPerUser ==
    \A user_id \in Users : Cardinality(ActiveTasks(user_id)) <= 1

(* Companion of C17: no request is ever answered 409.                       *)
L17_NeverConflict ==
    IsRequestReply => reply[1].status_code # HTTP_409_CONFLICT

L17_Witness ==
    /\ IsRequestReply
    /\ reply[1].saved
    /\ Cardinality(ActiveTasks(reply[1].user_id)) = 2

----------------------------------------------------------------------------
(* Transfers *)

IsTransferReply(handler) == reply # None /\ reply[1].handler = handler

\* the transfer was saved and the status last written for it is neither
\* PENDING nor SCHEDULED
NotOpen(transfer_id) ==
    /\ transfers[transfer_id].saved
    /\ transfers[transfer_id].status \notin {Some("pending"), Some("scheduled")}

(* C18: cancel_transfer writes CANCELLED only for a transfer whose status   *)
(* is PENDING or SCHEDULED; for a transfer in PROCESSING, COMPLETED, FAILED *)
(* or CANCELLED it answers 400 and writes neither a status nor a change of  *)
(* the recurring schedule.  Violated: get_transfer_by_id returns a pending  *)
(* transfer for every id, so a completed transfer is cancelled.             *)
C18_CancelOnlyPendingOrScheduled ==
    [][(reply' # None /\ reply'[1].handler = "cancel_transfer") =>
        LET call == reply'[1]
        IN  NotOpen(call.transfer_id) =>
                /\ call.status_code = HTTP_400_BAD_REQUEST
                /\ ~call.updated
                /\ transfers' = transfers]_vars

(* Companion of C18: as the code stands every call of cancel_transfer, for  *)
(* a transfer that was saved in whatever status and for an id that never    *)
(* was, is answered 200 and writes CANCELLED, and leaves the recurring      *)
(* schedule as it was.                                                      *)
L18_CancelAlwaysAccepted ==
    [][(reply' # None /\ reply'[1].handler = "cancel_transfer") =>
        LET call == reply'[1]
        IN  /\ call.status_code = HTTP_200_OK
            /\ transfers'[call.transfer_id].status = Some("cancelled")
            /\ transfers'[call.transfer_id].schedule
                   = transfers[call.transfer_id].schedule]_vars

L18_Witness ==
    /\ IsTransferReply("cancel_transfer")
    /\ transfers[reply[1].transfer_id].status = Some("cancelled")
    /\ transfers[reply[1].transfer_id].schedule

\* CANCELLED written for an id that no create saved
L18_WitnessUnsaved ==
    /\ IsTransferReply("cancel_transfer")
    /\ ~transfers[reply[1].transfer_id].saved
    /\ transfers[reply[1].transfer_id].status = Some("cancelled")

(* C19: update_transfer writes to a transfer only when its status is        *)
(* PENDING or SCHEDULED; for a transfer in PROCESSING, COMPLETED, FAILED or *)
(* CANCELLED the update is answered 400 and the transfer is left as it was. *)
(* Violated: the handler refuses COMPLETED and PROCESSING only, and the     *)
(* status it tests is the one of the pending transfer get_transfer_by_id    *)
(* returns for every id.                                                    *)
C19_UpdateOnlyPendingOrScheduled ==
    [][(reply' # None /\ reply'[1].handler = "update_transfer") =>
        LET call == reply'[1]
        IN  NotOpen(call.transfer_id) =>
                /\ call.status_code = HTTP_400_BAD_REQUEST
                /\ ~call.updated
                /\ transfers' = transfers]_vars

(* Companion of C19: as the code stands every call of update_transfer hands *)
(* its body to update_transfer_in_db, whatever the status of the transfer,  *)
(* and is then answered 500, the TransferResponse of the updated transfer   *)
(* failing to validate.                                                     *)
L19_UpdateAlwaysWritten ==
    [][(reply' # None /\ reply'[1].handler = "update_transfer") =>
        LET call == reply'[1]
        IN  /\ call.status_code = HTTP_500_INTERNAL_SERVER_ERROR
            /\ call.updated
            /\ \E transfer_update \in UpdateBodies :
                   transfers' = update_transfer_in_db(transfers, call.transfer_id,
                                                      transfer_update)]_vars

L19_Witness ==
    /\ IsTransferReply("update_transfer")
    /\ reply[1].status_code = HTTP_500_INTERNAL_SERVER_ERROR
    /\ transfers[reply[1].transfer_id].saved
    /\ transfers[reply[1].transfer_id].status = Some("failed")
    /\ transfers[reply[1].transfer_id].amount = Some(UPDATED_AMOUNT)

(* Companion of C18 and C19: no create is answered 201; POST / answers 500  *)
(* after the transfer was saved, and POST /bulk answers 200 with every      *)
(* transfer of the batch saved and counted as an error.                     *)
L19_CreateNeverAnswered201 ==
    /\ IsTransferReply("create_transfer") =>
           /\ reply[1].status_code = HTTP_500_INTERNAL_SERVER_ERROR
           /\ transfers[reply[1].transfer_id].saved
    /\ IsTransferReply("create_bulk_transfers") =>
           /\ reply[1].status_code = HTTP_200_OK
           /\ reply[1].created = 0
           /\ (reply[1].status = "partial") = (reply[1].errors > 0)

L19_WitnessBulk ==
    /\ IsTransferReply("create_bulk_transfers")
    /\ reply[1].errors = 2
    /\ \A id \in TransferIds : transfers[id].saved

----------------------------------------------------------------------------
(* C20: a check that rejects records nothing: the step in which it returns  *)
(* adds no timestamp under any key and leaves every time-to-live and the    *)
(* history of admissions as they were, and the only store commands the      *)
(* check issued are the prune and the count.                                *)
C20_RejectRecordsNothing ==
    [][last'.kind = "rejected" =>
        /\ zsets' = zsets
        /\ expiry' = expiry
        /\ admits' = admits
        /\ last'.ops = <<"zremrangebyscore", "zcard">>]_vars

\* a rejected check at a time at which a recording check would have added a
\* timestamp and moved the time-to-live
C20_Witness ==
    /\ last.kind = "rejected"
    /\ LET k == RedisKey(last.client[1])
       IN  /\ zsets[k] # {}
           /\ Entry(last.time) \notin zsets[k]
           /\ expiry[k] # now + RATE_LIMIT_PERIOD

----------------------------------------------------------------------------
(* Recording *)

\* the check of the latest step returned true with no store operation raised
\* in it or before it
AdmittedHealthy == last.kind = "admitted" /\ last.error = NoFault /\ Healthy

StoredFor(call) == zsets[RedisKey(call.client[1])]

(* C21: immediately after a check admitted through a healthy store the      *)
(* number of timestamps stored under the key is one more than the count     *)
(* the check observed after pruning, at every call time, also a time equal  *)
(* to that of an earlier admission.  Violated: the member of the sorted set *)
(* is str(current_time), so the ZADD of a second admission in the same      *)
(* second replaces the element of the first.                                *)
C21_AdmissionAppendsOne ==
    AdmittedHealthy => Cardinality(StoredFor(last)) = last.count + 1

(* Companion of C21: the ZADD of a check adds the one element of its second *)
(* and removes nothing: the number grows by one when no timestamp of the    *)
(* same second was stored, and stays the same when one was.                 *)
L21_AppendsOnePerSecond ==
    [][\A p \in Procs :
          Issues(p, "zadd") =>
              zsets'[KeyOf(p)] = zsets[KeyOf(p)] \cup {Entry(TimeOf(p))}]_vars

\* a second admission within one second
L21_Witness ==
    /\ AdmittedHealthy
    /\ last.count = 1
    /\ StoredFor(last) = {Entry(last.time)}

----------------------------------------------------------------------------
(* Pruning *)

\* what the step removes from the key of the check of p
PrunedBy(p) == zsets[KeyOf(p)] \ zsets'[KeyOf(p)]

(* C22: the prune step of a check made at time now removes exactly the      *)
(* stored timestamps strictly less than now - RATE_LIMIT_PERIOD; a          *)
(* timestamp equal to now - RATE_LIMIT_PERIOD is retained and counted.      *)
(* Violated: ZREMRANGEBYSCORE key 0 window_start includes window_start.     *)
C22_PruneStrictlyOlder ==
    [][\A p \in Procs :
          Issues(p, "zremrangebyscore") =>
              /\ PrunedBy(p) =
                     {el \in zsets[KeyOf(p)] : el.score < TimeOf(p) - RATE_LIMIT_PERIOD}
              /\ zsets'[KeyOf(p)] \subseteq zsets[KeyOf(p)]]_vars

(* C22 as amended: the prune step of a check made at time now removes       *)
(* exactly the stored timestamps less than or equal to                      *)
(* now - RATE_LIMIT_PERIOD; a timestamp equal to now - RATE_LIMIT_PERIOD is *)
(* removed and not counted by that check.                                   *)
C22_PruneUpToWindowStart ==
    [][\A p \in Procs :
          /\ Issues(p, "zremrangebyscore") =>
                 /\ PrunedBy(p) =
                        {el \in zsets[KeyOf(p)] : el.score <= TimeOf(p) - RATE_LIMIT_PERIOD}
                 /\ zsets'[KeyOf(p)] \subseteq zsets[KeyOf(p)]
          /\ Issues(p, "zcard") =>
                 /\ \A el \in zsets[KeyOf(p)] : el.score # TimeOf(p) - RATE_LIMIT_PERIOD
                 /\ CountRead(p) = Cardinality(zsets[KeyOf(p)])]_vars

\* a check about to count: its prune removed the timestamp equal to
\* window_start, recorded by an earlier admission, and kept a later one
C22_Witness ==
    \E p \in Procs :
        /\ procs[p].pc = "zcard"
        /\ TimeOf(p) >= RATE_LIMIT_PERIOD
        /\ TimeOf(p) - RATE_LIMIT_PERIOD \in RecordedAt(procs[p].client[1])
        /\ zsets[KeyOf(p)] = {Entry(TimeOf(p) - 1)}
        /\ expiry[KeyOf(p)] > now

(* C23: whenever a check made at time now counts the timestamps of its key, *)
(* after its prune step, every timestamp stored under the key lies within   *)
(* [now - RATE_LIMIT_PERIOD, now], and the count is the number of these: no *)
(* timestamp older than the window is included in a count.  Violated when   *)
(* several processes share the store: between the prune and the count of a  *)
(* check another process adds the second it read, which is later than the   *)
(* now of the first check or older than its window.                         *)
C23_CountedWithinWindow ==
    [][\A p \in Procs :
          Issues(p, "zcard") =>
              /\ \A el \in zsets[KeyOf(p)] :
                     /\ TimeOf(p) - RATE_LIMIT_PERIOD <= el.score
                     /\ el.score <= TimeOf(p)
              /\ CountRead(p) = Cardinality(zsets[KeyOf(p)])]_vars

----------------------------------------------------------------------------
(* Order of the store operations *)

(* C24: within one check the store operations are issued in the order       *)
(* zremrangebyscore, zcard, zadd, expire, each at most once, the last two    *)
(* only when the count is below RATE_LIMIT_REQUESTS; a rejected check       *)
(* issues only the first two; after an operation raised nothing is issued   *)
(* again in that check, which ends admitted or, when the print of the      *)
(* except branch raises, without a decision.                                *)
C24_OperationsInOrder ==
    (IsCheck(last) \/ last.kind = "failed") =>
        /\ \E n \in 1 .. 4 :
               last.ops = SubSeq(<<"zremrangebyscore", "zcard", "zadd", "expire">>, 1, n)
        /\ last.kind = "rejected" =>
               /\ last.ops = <<"zremrangebyscore", "zcard">>
               /\ last.error = NoFault
               /\ last.count >= RATE_LIMIT_REQUESTS
        /\ Len(last.ops) > 2 => last.count >= 0 /\ last.count < RATE_LIMIT_REQUESTS
        /\ (last.kind = "admitted" /\ last.error = NoFault) => Len(last.ops) = 4
        /\ last.error # NoFault =>
               /\ last.kind \in {"admitted", "failed"}
               /\ Len(last.ops) = last.error

\* a check whose zadd raised: no expire follows, the key keeps what it had
C24_Witness ==
    /\ IsCheck(last)
    /\ last.error = 3
    /\ last.ops = <<"zremrangebyscore", "zcard", "zadd">>
    /\ Entry(last.time) \notin StoredFor(last)

----------------------------------------------------------------------------
(* One process *)

(* C25: with one gate process, whose checks run one at a time, and a        *)
(* healthy store, the number of timestamps stored under any key is at most  *)
(* RATE_LIMIT_REQUESTS after every check.                                   *)
C25_StoredWithinLimit ==
    Healthy => \A k \in Keys : Cardinality(zsets[k]) <= RATE_LIMIT_REQUESTS

\* a rejection by a full key of more than one timestamp
C25_Witness ==
    /\ Healthy
    /\ last.kind = "rejected"
    /\ RATE_LIMIT_REQUESTS >= 2
    /\ Cardinality(StoredFor(last)) = RATE_LIMIT_REQUESTS

----------------------------------------------------------------------------
(* Expiry of keys *)

\* the step removes the key k because its time-to-live elapsed
RemovedByTimeToLive(k) ==
    /\ procs' = procs
    /\ last' = NoCall
    /\ zsets[k] # {}
    /\ zsets'[k] = {}

\* every timestamp under k is at least RATE_LIMIT_PERIOD old: a check made
\* now would prune it
AllOutOfWindow(k) == \A el \in zsets[k] : el.score + RATE_LIMIT_PERIOD <= now

(* C27: whenever a key is removed because its time-to-live elapsed, every   *)
(* timestamp stored under it is at least RATE_LIMIT_PERIOD old: the         *)
(* time-to-live never discards an admission that a check would still count. *)
(* Violated: ZADD stores the new timestamp under the time-to-live of an     *)
(* earlier admission, and the key goes with it when EXPIRE raises or comes  *)
(* too late.                                                                *)
C27_TimeToLiveKeepsCounted ==
    [][\A k \in Keys : RemovedByTimeToLive(k) => AllOutOfWindow(k)]_vars

----------------------------------------------------------------------------
(* Retry hint *)

\* the latest call of the client was rejected at a time at least
\* RATE_LIMIT_PERIOD ago, and none was admitted since
RetryDue(c, time) ==
    /\ Len(refused) = 2
    /\ refused[1] = c
    /\ time >= refused[2] + RejectionContent(settings).retry_after

(* C26: the retry hint is sufficient.  With a healthy store, when a call of *)
(* a client was rejected at time t and none of its calls was admitted       *)
(* since, a call of the client at a time now >= t + retry_after, where      *)
(* retry_after = RATE_LIMIT_PERIOD is the value the rejection carries, is   *)
(* admitted.                                                                *)
C26_RetryHintSufficient ==
    [][(IsCheck(last') /\ faults' = 0 /\ RetryDue(last'.client[1], last'.time))
           => last'.kind = "admitted"]_vars

\* a call rejected at t and the next call, made at t + retry_after, admitted,
\* both in the second in which an earlier admission was made or leaves the
\* window
C26_Witness ==
    /\ Healthy
    /\ last.kind = "admitted"
    /\ refused =
           <<last.client[1], last.time - RejectionContent(settings).retry_after, last.time>>
    /\ refused[2] \in RecordedAt(last.client[1])

----------------------------------------------------------------------------
(* Logging of rejections *)

HasHeader(message, name) ==
    \E i \in DOMAIN message.headers : message.headers[i].name = name

\* position of a middleware among those a request entered, 0 when not entered
EnteredAt(entered, cls) ==
    IF \E i \in 1 .. Len(entered) : entered[i] = cls
    THEN CHOOSE i \in 1 .. Len(entered) : entered[i] = cls
    ELSE 0

(* C29: every HTTP request enters LoggingMiddleware before                  *)
(* RateLimitMiddleware, and a call rejected by the rate limiter is          *)
(* observed by the logging middleware: the request is logged, the 429       *)
(* response start is logged and leaves with the headers x-request-id and    *)
(* x-process-time added to those of the response.                           *)
C29_RejectionsLogged ==
    (served # None /\ served[1].start.type = "http.response.start") =>
        LET s == served[1]
        IN  /\ EnteredAt(s.entered, "LoggingMiddleware") >= 1
            /\ EnteredAt(s.entered, "LoggingMiddleware")
                   < EnteredAt(s.entered, "RateLimitMiddleware")
            /\ last.kind = "rejected" =>
                   /\ s.entered = <<"LoggingMiddleware", "RateLimitMiddleware">>
                   /\ s.log = <<RequestLine([path |-> last.path, client |-> Some("10.0.0.1")]),
                                ResponseLine(HTTP_429_TOO_MANY_REQUESTS)>>
                   /\ s.start.status = HTTP_429_TOO_MANY_REQUESTS
                   /\ HasHeader(s.start, "x-request-id")
                   /\ HasHeader(s.start, "x-process-time")
                   /\ s.start.headers
                          = last.response[1].headers
                                \o <<[name |-> "x-request-id", value |-> REQUEST_ID],
                                     [name |-> "x-process-time", value |-> PROCESS_TIME]>>

C29_Witness ==
    /\ last.kind = "rejected"
    /\ served # None
    /\ served[1].start.status = HTTP_429_TOO_MANY_REQUESTS
    /\ Len(served[1].start.headers) = 4
    /\ Len(served[1].log) = 2

----------------------------------------------------------------------------
(* Cancellation and the background job *)

\* once CANCELLED has been written for a task, the job scheduled for it
\* writes no status and runs no deletion step
CancelledStopsJob ==
    [][\A task_id \in 1 .. Len(tasks) :
           tasks[task_id].status = "cancelled" =>
               /\ tasks'[task_id].status = "cancelled"
               /\ jobs'[task_id] = jobs[task_id]]_vars

(* No call of cancel_deletion writes CANCELLED: get_deletion_task_by_id     *)
(* reports every task as IN_PROGRESS, also one just requested, so the       *)
(* premise of CancelledStopsJob holds in no reachable state.                *)
L28_NeverCancelled ==
    \A task_id \in 1 .. Len(tasks) : tasks[task_id].status # "cancelled"

====
